---- MODULE Spec2Model ----
(***************************************************************************)
(* Model of the TUIO session registry of surface-streams-core:             *)
(* tuio/tuio_receiver.py (message handlers, TuioReceiver) over the data    *)
(* model of tuio/tuio_elements.py.                                         *)
(*                                                                         *)
(* The OSC server runs the four handlers in a background process; they     *)
(* put decoded messages on four queues.  update_elements() runs in the     *)
(* polling process and drains the queues one after the other.  Each of its *)
(* drain loops reads one queue only and each handler writes one queue      *)
(* only, so a message that arrives during a poll has the effect of the     *)
(* same message arriving before the poll (when its loop still drains it)   *)
(* or after it (when it does not): update_elements() is one step of the    *)
(* model, and deliveries happen between polls.                             *)
(*                                                                         *)
(* Time, and with it element_timeout, is counted in ticks of the clock.     *)
(*                                                                         *)
(* Beside the registry (Spec, SpecNoEviction) the module has the sender of *)
(* tuio/tuio_sender.py feeding the registry (SpecRoundTrip), the session   *)
(* id generator TuioSessionId (SpecSessionId) and the pattern store and    *)
(* tracking rounds of opencv/pattern_tracking.py (SpecTracking).  Each     *)
(* specification leaves the variables of the other components at their     *)
(* initial values.                                                         *)
(***************************************************************************)
EXTENDS Integers, Sequences, FiniteSets, TLC

VARIABLES
    bnd_queue, sym_queue, ptr_queue, dat_queue, \* TuioDispatcher queues
    patterns, pattern_update_times,             \* TuioReceiver._patterns, ._pattern_update_times
    pointers, pointer_update_times,             \* TuioReceiver._pointers, ._pointer_update_times
    element_timeout,                            \* TuioReceiver._element_timeout (ticks)
    server,                                     \* state of the OSC server process
    srv_sid, main_sid,                          \* TuioSessionId class state, per process
    clock,                                      \* time.time() (ticks)
    pc, time_now, update_log,                   \* update_elements(): position and locals
    received, bad_syms, handler_errors,         \* deliveries / exceptions in the server
    processed,                                  \* messages taken off the queues so far
    poll, pat_hist,                             \* history of the last poll / of each pattern
    sent,                                       \* patterns given to TuioSender.send_pattern since the last poll
    sid_calls,                                  \* history of the calls of TuioSessionId
    tracker_patterns,                           \* PatternTracking.patterns, in insertion order
    load_log,                                   \* the last load_patterns call and the failures it printed
    tracking_round,                             \* the tracking round under way: call, threads, result
    matcher_call,                               \* the last direct call of the match engine
    sender_call,                                \* the last send_patterns / send_pointers call and its messages
    element,                                    \* a TuioImagePattern of the application and the calls made on it
    proc,                                       \* a ProcessWrapper and its subprocess
    trace,                                      \* history of a poll that runs beside the server: arrivals and applications
    pair,                                       \* two TuioReceiver instances of one process
    web                                         \* a session of webutils and the server it talks to

queues == <<bnd_queue, sym_queue, ptr_queue, dat_queue>>
maps   == <<patterns, pattern_update_times, pointers, pointer_update_times>>
vars   == <<bnd_queue, sym_queue, ptr_queue, dat_queue, patterns, pattern_update_times,
            pointers, pointer_update_times, element_timeout, server, srv_sid, main_sid,
            clock, pc, time_now, update_log, received, bad_syms, handler_errors,
            processed, poll, pat_hist, sent, sid_calls, tracker_patterns, load_log,
            tracking_round, matcher_call, sender_call,
            element, proc, trace, pair, web>>

tracking_vars == <<tracker_patterns, load_log, tracking_round>>

\* The components called directly, one call at a time.
unit_vars == <<matcher_call, sender_call, element, proc>>

\* The receiver polled while messages arrive, two receivers, a web session.
more_vars == <<trace, pair, web>>

\* What the receiver's own steps leave alone.
side_vars == <<sid_calls, tracking_vars, unit_vars, more_vars>>

\* What the steps of the other components leave alone.
receiver_vars == <<queues, maps, element_timeout, server, srv_sid, main_sid, clock, pc,
                   time_now, update_log, received, bad_syms, handler_errors, processed, poll,
                   pat_hist, sent>>

----------------------------------------------------------------------------
(* Bounds of the model and the values messages are drawn from.             *)

MaxMsgs == 3          \* messages delivered to the server in one behaviour
MaxTime == 2          \* last tick of the clock

Timeouts == {0, 1}            \* element_timeout: disabled, or one tick
UUIDs    == {"a", "b"}        \* id-values sent under id-type "uuid"
Names    == {"n"}             \* id-values sent under id-type "name"

\* The argument lists of the messages delivered.  Session id -1 is the
\* constructors' "unset"; user id, component id and type id are 0.
BndArgs == {<<1, 0, 0, 0, 0, 1, 1>>, <<1, 0, 1, 0, 0, 0, 1>>, <<-1, 0, 0, 0, 0, 1, 1>>}
SymArgs == {<<1, 0, 0, 0, "uuid", "a">>, <<1, 0, 0, 0, "uuid", "b">>,
            <<1, 0, 0, 0, "name", "n">>}
PtrArgs == {<<1, 0, 0, 0, 0, 0, 0, 0, 10, FALSE>>, <<1, 0, 0, 0, 1, 0, 0, 0, 10, TRUE>>,
            <<-1, 0, 0, 0, 0, 0, 0, 0, 10, FALSE>>}
DatArgs == {<<1, 0, 0, "m1", "v1">>, <<1, 0, 0, "m1", "v2">>, <<1, 0, 0, "m2", "v1">>}

None == "None"                \* Python's None (no UUID or Name equals it)

----------------------------------------------------------------------------
(* Python lists and dicts.                                                 *)

InList(x, l) == \E i \in 1..Len(l) : l[i] = x

EmptyDict == [k \in {} |-> None]

DictSet(d, k, v) == [x \in DOMAIN d \cup {k} |-> IF x = k THEN v ELSE d[x]]

----------------------------------------------------------------------------
(* tuio_elements.py: the data model.                                       *)

\* TuioSessionId: class state [current, existing] of one process.
SessionIdInit == [current |-> 0, existing |-> <<>>]

\* Mutant of TuioSessionId.get: _current is not advanced.
TuioSessionId_get_Stale(st, keep_current) ==
    [s_id |-> st.current,
     st   |-> IF keep_current THEN st ELSE [st EXCEPT !.existing = Append(@, st.current)]]

RECURSIVE TuioSessionId_get(_, _)
TuioSessionId_get(st, keep_current) ==
    LET s_id == st.current IN
    IF keep_current
    THEN [s_id |-> s_id, st |-> st]
    ELSE LET st1 == [st EXCEPT !.current = @ + 1]
             r   == IF InList(s_id, st1.existing)
                    THEN TuioSessionId_get(st1, FALSE)
                    ELSE [s_id |-> s_id, st |-> st1]
         IN  [s_id |-> r.s_id,
              st   |-> [r.st EXCEPT !.existing = Append(@, r.s_id)]]

\* TuioSessionId.add_existing.
TuioSessionId_add_existing(st, s_id) ==
    IF ~InList(s_id, st.existing) THEN [st EXCEPT !.existing = Append(@, s_id)] ELSE st

\* TuioSessionElement.__init__: -1 is replaced by a fresh session id.
TuioSessionElement_init(sid, s_id) ==
    IF s_id = -1
    THEN TuioSessionId_get(sid, FALSE)
    ELSE [s_id |-> s_id, st |-> sid]

TuioData(mime_type, data) == [mime_type |-> mime_type, data |-> data]

\* TuioData.__eq__: equal mime types.
TuioData_eq(a, b) == b.mime_type = a.mime_type

\* "data in self._data", by TuioData.__eq__.
DataIn(d, l) == \E i \in 1..Len(l) : TuioData_eq(l[i], d)

\* list.remove(d): drops the first element equal to d.
DataRemove(l, d) ==
    LET i == CHOOSE j \in 1..Len(l) :
                 /\ TuioData_eq(l[j], d)
                 /\ \A m \in 1..(j - 1) : ~TuioData_eq(l[m], d)
    IN  SubSeq(l, 1, i - 1) \o SubSeq(l, i + 1, Len(l))

\* TuioElement.append_data on the list self._data.
append_data(self_data, data, remove_similar) ==
    LET kept == IF remove_similar /\ DataIn(data, self_data)
                THEN DataRemove(self_data, data)
                ELSE self_data
    IN  Append(kept, data)

RECURSIVE RemoveEach(_, _)
RemoveEach(self_data, data) ==
    IF data = <<>> THEN self_data
    ELSE RemoveEach(IF DataIn(Head(data), self_data)
                    THEN DataRemove(self_data, Head(data))
                    ELSE self_data,
                    Tail(data))

\* TuioElement.append_data_list on the list self._data.
append_data_list(self_data, data, remove_similar) ==
    (IF remove_similar THEN RemoveEach(self_data, data) ELSE self_data) \o data

TuioBounds(x_pos, y_pos, angle, width, height) ==
    [x_pos |-> x_pos, y_pos |-> y_pos, angle |-> angle, width |-> width, height |-> height]

TuioBounds_default == TuioBounds(0, 0, 0, 0, 0)

\* Mutant of TuioBounds.is_empty: "and" for "or".
TuioBounds_is_empty_Both(b) == b.width <= 0 /\ b.height <= 0

TuioBounds_is_empty(b) == b.width <= 0 \/ b.height <= 0

TuioSymbol(uuid, tu_id, c_id) == [uuid |-> uuid, tu_id |-> tu_id, c_id |-> c_id]

TuioSymbol_default == TuioSymbol(None, -1, -1)

TuioSymbol_is_empty(s) == s.uuid = None

TuioSymbol_eq(a, b) == a.uuid = b.uuid /\ a.tu_id = b.tu_id /\ a.c_id = b.c_id

\* TuioPointer.__init__ in the process whose TuioSessionId state is sid.
TuioPointer(sid, s_id, u_id, tu_id, c_id, x_pos, y_pos, angle, shear, radius, press) ==
    LET r == TuioSessionElement_init(sid, s_id) IN
    [ptr |-> [s_id |-> r.s_id, u_id |-> u_id, tu_id |-> tu_id, c_id |-> c_id,
              x_pos |-> x_pos, y_pos |-> y_pos, angle |-> angle, shear |-> shear,
              radius |-> radius, press |-> press, data |-> <<>>],
     st  |-> r.st]

TuioPointer_calc_key(s_id, u_id, c_id) ==
    ToString(s_id) \o "_" \o ToString(u_id) \o "_" \o ToString(c_id)

TuioPointer_key(p) == TuioPointer_calc_key(p.s_id, p.u_id, p.c_id)

\* TuioImagePattern.__init__(s_id=s_id, u_id=u_id): default bounds and symbol.
TuioImagePattern(sid, s_id, u_id) ==
    LET r == TuioSessionElement_init(sid, s_id) IN
    [pat |-> [s_id |-> r.s_id, u_id |-> u_id, bnd |-> TuioBounds_default,
              sym |-> TuioSymbol_default, data |-> <<>>],
     st  |-> r.st]

TuioImagePattern_calc_key(s_id, u_id) == ToString(s_id) \o "_" \o ToString(u_id)

TuioImagePattern_key(p) == TuioImagePattern_calc_key(p.s_id, p.u_id)

TuioImagePattern_is_valid(p) ==
    ~TuioBounds_is_empty(p.bnd) /\ ~TuioSymbol_is_empty(p.sym)

\* TuioImagePattern.set_width.
TuioImagePattern_set_width(p, width) == [p EXCEPT !.bnd.width = width]

\* TuioImagePattern.set_height: the assignment is to self._bnd.width.
TuioImagePattern_set_height(p, height) == [p EXCEPT !.bnd.width = height]

----------------------------------------------------------------------------
(* tuio_receiver.py: the handlers the dispatcher maps to the four paths.   *)
(* Each returns the queue after the call and whether the call raised.      *)

bnd_handler(msg_queue, s_id, u_id, x_pos, y_pos, angle, width, height) ==
    LET bnd == TuioBounds(x_pos, y_pos, angle, width, height) IN
    [raised |-> FALSE,
     queue  |-> Append(msg_queue, [s_id |-> s_id, u_id |-> u_id, bnd |-> bnd])]

\* Mutant of sym_handler: the id-type is not looked at.
sym_handler_Unchecked(msg_queue, s_id, u_id, tu_id, c_id, sym_type, sym_value) ==
    LET sym == TuioSymbol(sym_value, tu_id, c_id) IN
    [raised |-> FALSE,
     queue  |-> Append(msg_queue, [s_id |-> s_id, u_id |-> u_id, sym |-> sym])]

sym_handler(msg_queue, s_id, u_id, tu_id, c_id, sym_type, sym_value) ==
    IF sym_type # "uuid"
    THEN [raised |-> TRUE, queue |-> msg_queue]
    ELSE LET sym == TuioSymbol(sym_value, tu_id, c_id) IN
         [raised |-> FALSE,
          queue  |-> Append(msg_queue, [s_id |-> s_id, u_id |-> u_id, sym |-> sym])]

\* Builds a TuioPointer, which may draw a session id: sid is the server's TuioSessionId.
ptr_handler(msg_queue, sid, s_id, u_id, tu_id, c_id, x_pos, y_pos, angle, shear, radius, press) ==
    LET r == TuioPointer(sid, s_id, u_id, tu_id, c_id, x_pos, y_pos, angle, shear, radius, press) IN
    [raised |-> FALSE,
     queue  |-> Append(msg_queue, [s_id |-> s_id, u_id |-> u_id, c_id |-> c_id, ptr |-> r.ptr]),
     sid    |-> r.st]

dat_handler(msg_queue, s_id, u_id, c_id, mime_type, data) ==
    LET dat == TuioData(mime_type, data) IN
    [raised |-> FALSE,
     queue  |-> Append(msg_queue, [s_id |-> s_id, u_id |-> u_id, c_id |-> c_id, dat |-> dat])]

----------------------------------------------------------------------------
(* tuio_sender.py: the argument lists of the bnd and sym messages of a     *)
(* pattern.                                                                *)

\* Mutant of extract_bnd_args: width and height change places.
extract_bnd_args_Swapped(pattern) ==
    <<pattern.s_id, pattern.u_id, pattern.bnd.x_pos, pattern.bnd.y_pos, pattern.bnd.angle,
      pattern.bnd.height, pattern.bnd.width>>

extract_bnd_args(pattern) ==
    <<pattern.s_id, pattern.u_id, pattern.bnd.x_pos, pattern.bnd.y_pos, pattern.bnd.angle,
      pattern.bnd.width, pattern.bnd.height>>

extract_sym_args(pattern) ==
    <<pattern.s_id, pattern.u_id, pattern.sym.tu_id, pattern.sym.c_id, "uuid", pattern.sym.uuid>>

\* TuioSessionElement.is_empty.
TuioSessionElement_is_empty(e) == e.s_id = -1

extract_ptr_args(pointer) ==
    <<pointer.s_id, pointer.u_id, pointer.tu_id, pointer.c_id, pointer.x_pos, pointer.y_pos,
      pointer.angle, pointer.shear, pointer.radius, pointer.press>>

extract_dat_args(data) == <<data.mime_type, data.data>>

\* OscSender._send_message: the message is appended to what is on the wire.
_send_message(wire, path, arg_lst) == Append(wire, [path |-> path, args |-> arg_lst])

\* TuioSender.send_pattern.
TuioSender_send_pattern(wire, pattern) ==
    IF TuioImagePattern_is_valid(pattern)
    THEN _send_message(_send_message(wire, "/tuio2/bnd", extract_bnd_args(pattern)),
                       "/tuio2/sym", extract_sym_args(pattern))
    ELSE wire

RECURSIVE TuioSender_send_patterns(_, _)
TuioSender_send_patterns(wire, pattern_list) ==
    IF pattern_list = <<>> THEN wire
    ELSE TuioSender_send_patterns(TuioSender_send_pattern(wire, Head(pattern_list)),
                                  Tail(pattern_list))

\* The loop over pointer.get_data() in send_pointer.
RECURSIVE SendData(_, _, _)
SendData(wire, pointer, data_list) ==
    IF data_list = <<>> THEN wire
    ELSE SendData(_send_message(wire, "/tuio2/dat",
                                <<pointer.s_id, pointer.u_id, pointer.c_id>>
                                    \o extract_dat_args(Head(data_list))),
                  pointer, Tail(data_list))

\* Mutant of send_pointer: an empty pointer is sent like any other.
TuioSender_send_pointer_Unguarded(wire, pointer) ==
    SendData(_send_message(wire, "/tuio2/ptr", extract_ptr_args(pointer)), pointer, pointer.data)

\* TuioSender.send_pointer.
TuioSender_send_pointer(wire, pointer) ==
    IF ~TuioSessionElement_is_empty(pointer)
    THEN SendData(_send_message(wire, "/tuio2/ptr", extract_ptr_args(pointer)),
                  pointer, pointer.data)
    ELSE wire

RECURSIVE TuioSender_send_pointers(_, _)
TuioSender_send_pointers(wire, pointer_list) ==
    IF pointer_list = <<>> THEN wire
    ELSE TuioSender_send_pointers(TuioSender_send_pointer(wire, Head(pointer_list)),
                                  Tail(pointer_list))

----------------------------------------------------------------------------
(* opencv/sift_pattern.py, opencv/flann_matcher.py, opencv/pattern_tracking.py: *)
(* pattern store and tracking rounds.                                      *)
(*                                                                         *)
(* An image is [empty, file, h, w]; "empty" stands for Python's None.  A   *)
(* frame carries, besides its shape, what OpenCV computes of it: for the   *)
(* image file of a pattern and the SIFT detector the frame's features were *)
(* computed with, the number of good matches, whether findHomography       *)
(* returns a matrix, and the rotated rectangle and angle obtained from it. *)

MIN_MATCH_COUNT == 10

\* RATIO_TOLERANCE = 0.1, as a fraction.
RATIO_TOLERANCE == [num |-> 1, den |-> 10]

\* The SIFT detectors: the module's SIFT, the one SiftPattern creates by
\* default, and the one PatternTrackingThread creates for its frame.
SIFT == "SIFT_create()"
SIFT_default == "SIFT_create(sigma=2.0)"
SIFT_thread == "SIFT_create(edgeThreshold=12, contrastThreshold=0.02, sigma=0.8)"

NoImage == [empty |-> TRUE, file |-> "", h |-> 0, w |-> 0]

\* The image files below the resource directory; a path is the sequence of
\* its components.
ReadableFiles == {"a", "b"}
Paths == {<<"res", "a">>, <<"res", "b">>, <<"res", "x">>}

\* An image file of one pixel row.
LineFiles == {"l"}

\* cv.imread(path, 0): the image, or None when the file cannot be read.
cv_imread(file_path) ==
    LET file == file_path[Len(file_path)] IN
    IF file \in ReadableFiles THEN [empty |-> FALSE, file |-> file, h |-> 3, w |-> 5]
    ELSE IF file \in LineFiles THEN [empty |-> FALSE, file |-> file, h |-> 1, w |-> 5]
    ELSE NoImage

\* cv.resize(img, (0, 0), fx=scale, fy=scale): raises cv.error on None.
cv_resize(img, scale) ==
    IF img.empty
    THEN [raised |-> TRUE, img |-> img]
    ELSE [raised |-> FALSE, img |-> [img EXCEPT !.h = @ * scale, !.w = @ * scale]]

\* SiftPattern.__init__.
SiftPattern(pattern_id, cv_sift) ==
    [id |-> pattern_id, img |-> NoImage, sift |-> cv_sift, computed |-> FALSE]

SiftPattern_is_empty(pattern) == pattern.img.empty

\* SiftPattern._detect_and_compute; cv_sift None is the string "None".
SiftPattern_detect_and_compute(pattern) ==
    IF SiftPattern_is_empty(pattern) THEN pattern
    ELSE [pattern EXCEPT !.sift = IF @ = None THEN SIFT_default ELSE @, !.computed = TRUE]

\* SiftPattern.load_image: the pattern after the call and whether cv.error was raised.
SiftPattern_load_image(pattern, file_path, scale) ==
    LET img == cv_imread(file_path)
        r   == cv_resize(img, scale)
    IN  IF scale # 1
        THEN IF r.raised
             THEN [raised |-> TRUE, pattern |-> [pattern EXCEPT !.img = img]]
             ELSE [raised |-> FALSE,
                   pattern |-> SiftPattern_detect_and_compute([pattern EXCEPT !.img = r.img])]
        ELSE [raised |-> FALSE,
              pattern |-> SiftPattern_detect_and_compute([pattern EXCEPT !.img = img])]

\* SiftPattern.set_image.
SiftPattern_set_image(pattern, img) ==
    SiftPattern_detect_and_compute([pattern EXCEPT !.img = img])

\* The pattern store: a dict in insertion order, as the sequence of its values.
StoreIds(store) == {store[i].id : i \in 1..Len(store)}

StoreSet(store, pattern) ==
    IF pattern.id \in StoreIds(store)
    THEN [i \in 1..Len(store) |-> IF store[i].id = pattern.id THEN pattern ELSE store[i]]
    ELSE Append(store, pattern)

\* PatternTracking.load_pattern on [patterns, reports]; pattern_id None is "None".
load_pattern(T, path, pattern_id, matching_scale) ==
    LET id == IF pattern_id = None THEN path[Len(path)] ELSE pattern_id
        r  == SiftPattern_load_image(SiftPattern(id, SIFT), path, matching_scale)
    IN  [patterns |-> StoreSet(T.patterns, r.pattern),
         reports  |-> IF r.raised THEN Append(T.reports, path) ELSE T.reports]

RECURSIVE load_patterns_loop(_, _, _, _)
load_patterns_loop(T, paths, pattern_ids, matching_scale) ==
    IF paths = <<>> THEN T
    ELSE load_patterns_loop(load_pattern(T, Head(paths), Head(pattern_ids), matching_scale),
                            Tail(paths), Tail(pattern_ids), matching_scale)

\* PatternTracking.load_patterns.
load_patterns(T, paths, pattern_ids, matching_scale) ==
    LET ids == IF Len(paths) # Len(pattern_ids) THEN [i \in 1..Len(paths) |-> None]
               ELSE pattern_ids
    IN  load_patterns_loop(T, paths, ids, matching_scale)

\* What OpenCV computes of one pattern image and one frame: too few matches,
\* a match, no homography, a degenerate rectangle, a rectangle of another
\* aspect ratio.
CvFew  == [good |-> 9,  M |-> TRUE,  center |-> <<4, 2>>, size |-> <<2, 4>>, rot |-> 0]
CvOk   == [good |-> 10, M |-> TRUE,  center |-> <<4, 2>>, size |-> <<2, 4>>, rot |-> 0]
CvNoM  == [good |-> 10, M |-> FALSE, center |-> <<4, 2>>, size |-> <<2, 4>>, rot |-> 0]
CvFlat == [good |-> 10, M |-> TRUE,  center |-> <<4, 2>>, size |-> <<4, 0>>, rot |-> 0]
CvSkew == [good |-> 10, M |-> TRUE,  center |-> <<4, 2>>, size |-> <<8, 2>>, rot |-> 0]

FrameSifts == {SIFT_default, SIFT_thread}

FrameTables ==
    [ReadableFiles -> [FrameSifts -> {CvFew, CvOk}]]
        \cup {[f \in ReadableFiles |-> [c \in FrameSifts |-> o]] : o \in {CvNoM, CvFlat, CvSkew}}

NoFrame == [empty |-> TRUE, file |-> "", h |-> 0, w |-> 0, cv |-> <<>>]

\* The frames a round is called with, None among them.
Frames ==
    {NoFrame} \cup {[empty |-> FALSE, file |-> "frame", h |-> 2, w |-> 4, cv |-> t] : t \in FrameTables}

Max(a, b) == IF a >= b THEN a ELSE b

Min(a, b) == IF a <= b THEN a ELSE b

Abs(a) == IF a >= 0 THEN a ELSE -a

\* TuioBounds.normalized(h, w); the values used divide without remainder.
TuioBounds_normalized(b, h, w) ==
    TuioBounds(b.x_pos \div w, b.y_pos \div h, b.angle, b.width \div w, b.height \div h)

PatternTrackingResult(pattern_id, bnd) == [pattern_id |-> pattern_id, bnd |-> bnd]

\* PatternTrackingResult.is_valid.
PatternTrackingResult_is_valid(result) ==
    result.pattern_id # None /\ ~TuioBounds_is_empty(result.bnd)

\* A list of good matches is modelled by its length; NoGood is good=None.
NoGood == [none |-> TRUE, len |-> 0]

Good(n) == [none |-> FALSE, len |-> n]

\* Mutant of knn_match: an empty pattern or frame gives an empty list.
FlannMatcher_knn_match_Silent(pattern, frame) ==
    IF SiftPattern_is_empty(pattern) \/ SiftPattern_is_empty(frame)
    THEN [raised |-> FALSE, error |-> None, good |-> 0]
    ELSE [raised |-> FALSE, error |-> None,
          good |-> frame.img.cv[pattern.img.file][frame.sift].good]

\* FlannMatcher.knn_match: the number of good matches, or ValueError.
FlannMatcher_knn_match(pattern, frame) ==
    IF SiftPattern_is_empty(pattern) \/ SiftPattern_is_empty(frame)
    THEN [raised |-> TRUE, error |-> "ValueError", good |-> 0]
    ELSE [raised |-> FALSE, error |-> None,
          good |-> frame.img.cv[pattern.img.file][frame.sift].good]

\* FlannMatcher.find_homography(pattern, frame, good): len(good) raises
\* TypeError on None; an empty list is replaced by what knn_match returns;
\* M is whether cv.findHomography returns a matrix.
FlannMatcher_find_homography(pattern, frame, good) ==
    LET k == FlannMatcher_knn_match(pattern, frame) IN
    IF good.none THEN [raised |-> TRUE, error |-> "TypeError", M |-> FALSE]
    ELSE IF good.len = 0 /\ k.raised THEN [raised |-> TRUE, error |-> k.error, M |-> FALSE]
    ELSE IF SiftPattern_is_empty(pattern) \/ SiftPattern_is_empty(frame)
    THEN [raised |-> TRUE, error |-> "ValueError", M |-> FALSE]
    ELSE [raised |-> FALSE, error |-> None,
          M |-> frame.img.cv[pattern.img.file][frame.sift].M]

\* Mutant of the ratio test: a deviation of just RATIO_TOLERANCE is rejected.
RatioOff_AtTolerance(o_width, o_height, width, height) ==
    RATIO_TOLERANCE.den * Abs(o_height * width - o_width * height)
        >= RATIO_TOLERANCE.num * o_height * width

\* o_width / o_height, width / height and o_ratio / new_ratio: whether one
\* of the three divisions is by zero.
RatioDividesByZero(o_width, o_height, width, height) ==
    o_height = 0 \/ height = 0 \/ width = 0

\* abs(1 - o_ratio / new_ratio) > RATIO_TOLERANCE, the ratios being
\* o_width / o_height and width / height, all four positive.
RatioOff(o_width, o_height, width, height) ==
    RATIO_TOLERANCE.den * Abs(o_height * width - o_width * height)
        > RATIO_TOLERANCE.num * o_height * width

\* Mutant of the loop body: the box found is not validated, neither for a
\* side of length zero nor for its aspect ratio.
MatchPattern_NoBoxCheck(pattern, frame_pattern, h) ==
    LET k == FlannMatcher_knn_match(pattern, frame_pattern)
        m == FlannMatcher_find_homography(pattern, frame_pattern, Good(k.good))
        o == frame_pattern.img.cv[pattern.img.file][frame_pattern.sift]
        width  == Max(o.size[1], o.size[2])
        height == Min(o.size[1], o.size[2])
        bnd == TuioBounds_normalized(
                   TuioBounds(o.center[1], o.center[2], o.rot + 180, width, height), h, h)
        none == [raised |-> FALSE, error |-> None, results |-> <<>>]
    IN  IF k.raised THEN [raised |-> TRUE, error |-> k.error, results |-> <<>>]
        ELSE IF k.good < MIN_MATCH_COUNT THEN none
        ELSE IF m.raised THEN [raised |-> TRUE, error |-> m.error, results |-> <<>>]
        ELSE IF ~m.M THEN none
        ELSE [raised |-> FALSE, error |-> None,
              results |-> <<PatternTrackingResult(pattern.id, bnd)>>]

\* The body of the loop over the patterns, in PatternTracking.track and in
\* PatternTrackingThread.run alike: the results it appends, or an exception.
MatchPattern(pattern, frame_pattern, h) ==
    LET k == FlannMatcher_knn_match(pattern, frame_pattern)
        m == FlannMatcher_find_homography(pattern, frame_pattern, Good(k.good))
        o == frame_pattern.img.cv[pattern.img.file][frame_pattern.sift]
        width    == Max(o.size[1], o.size[2])
        height   == Min(o.size[1], o.size[2])
        o_width  == Max(pattern.img.w - 1, pattern.img.h - 1)
        o_height == Min(pattern.img.w - 1, pattern.img.h - 1)
        bnd == TuioBounds_normalized(
                   TuioBounds(o.center[1], o.center[2], o.rot + 180, width, height), h, h)
        none == [raised |-> FALSE, error |-> None, results |-> <<>>]
    IN  IF k.raised THEN [raised |-> TRUE, error |-> k.error, results |-> <<>>]
        ELSE IF k.good < MIN_MATCH_COUNT THEN none
        ELSE IF m.raised THEN [raised |-> TRUE, error |-> m.error, results |-> <<>>]
        ELSE IF ~m.M THEN none
        ELSE IF o_height = 0 \/ height = 0 THEN none
        ELSE IF RatioDividesByZero(o_width, o_height, width, height)
             THEN [raised |-> TRUE, error |-> "ZeroDivisionError", results |-> <<>>]
        ELSE IF RatioOff(o_width, o_height, width, height) THEN none
        ELSE [raised |-> FALSE, error |-> None,
              results |-> <<PatternTrackingResult(pattern.id, bnd)>>]

\* The loop over the patterns: results so far, patterns passed, and whether
\* the body raised.
RECURSIVE MatchLoop(_, _, _, _, _)
MatchLoop(pattern_list, frame_pattern, h, results, passed) ==
    IF pattern_list = <<>>
    THEN [raised |-> FALSE, error |-> None, results |-> results, passed |-> passed]
    ELSE LET r == MatchPattern(Head(pattern_list), frame_pattern, h) IN
         IF r.raised
         THEN [raised |-> TRUE, error |-> r.error, results |-> results, passed |-> passed]
         ELSE MatchLoop(Tail(pattern_list), frame_pattern, h, results \o r.results, passed + 1)

\* PatternTracking.track: image.shape raises on None, and an exception of the
\* loop leaves the call; nothing is returned then.
track(pattern_list, image) ==
    LET frame_pattern == SiftPattern_set_image(SiftPattern("THE-FRAME", None), image)
        r == MatchLoop(pattern_list, frame_pattern, image.h, <<>>, 0)
    IN  IF image.empty THEN [raised |-> TRUE, error |-> "AttributeError", res |-> <<>>]
        ELSE IF r.raised THEN [raised |-> TRUE, error |-> r.error, res |-> <<>>]
        ELSE [raised |-> FALSE, error |-> None, res |-> r.results]

\* PatternTrackingThread.run: an exception ends the thread with the results
\* it has appended.
PatternTrackingThread_run(thread) ==
    LET frame_pattern == SiftPattern_set_image(thread.frame_pattern, thread.image)
        r == MatchLoop(thread.patterns, frame_pattern, thread.image.h, <<>>, 0)
    IN  IF thread.image.empty
        THEN [thread EXCEPT !.status = "finished", !.results = <<>>]
        ELSE [thread EXCEPT !.status = IF r.raised THEN "died" ELSE "finished",
                            !.frame_pattern = frame_pattern,
                            !.results = r.results, !.passed = r.passed]

\* PatternTrackingThread.__init__, then thread.start().
PatternTrackingThread(image, pattern_list) ==
    [image |-> image, patterns |-> pattern_list, status |-> "started",
     frame_pattern |-> SiftPattern("THE-FRAME", SIFT_thread), results |-> <<>>, passed |-> 0]

\* Mutant of the partition of track_concurrent: blocks of consecutive
\* patterns, the first thread taking what is left over.
ThreadPatterns_Blocks(temp, thread_id, num_threads) ==
    LET size  == Len(temp) \div num_threads
        first == Len(temp) - size * (num_threads - 1)
    IN  IF thread_id = 0 THEN SubSeq(temp, 1, first)
        ELSE SubSeq(temp, first + (thread_id - 1) * size + 1, first + thread_id * size)

\* track_concurrent: patterns[thread_id], the patterns i with i % num_threads = thread_id.
ThreadPatterns(temp, thread_id, num_threads) ==
    LET n == Cardinality({i \in 0..(Len(temp) - 1) : i % num_threads = thread_id}) IN
    [k \in 1..n |-> temp[thread_id + (k - 1) * num_threads + 1]]

\* track_concurrent: the threads started, one for each non-empty list.
RECURSIVE StartThreads(_, _)
StartThreads(lists, image) ==
    IF lists = <<>> THEN <<>>
    ELSE (IF Len(Head(lists)) > 0 THEN <<PatternTrackingThread(image, Head(lists))>> ELSE <<>>)
             \o StartThreads(Tail(lists), image)

PatternTracking_clear_patterns(pattern_list) == <<>>

----------------------------------------------------------------------------
(* tuio_receiver.py: TuioReceiver.  The registry state one poll works on:  *)
(* R = [patterns, pattern_update_times, pointers, pointer_update_times,    *)
(*      update_log, sid], sid being the polling process's TuioSessionId.   *)

EmptyLog == [bnd |-> <<>>, sym |-> <<>>, ptr |-> <<>>, dat |-> <<>>]

LogOnce(log, key) == IF InList(key, log) THEN log ELSE Append(log, key)

\* Mutant of the loop body of _process_bnd_updates: the time stamp is
\* written for every pattern of the map.
bnd_update_StampsAll(R, bnd_msg, timestamp) ==
    LET s_id == bnd_msg.s_id
        u_id == bnd_msg.u_id
        key  == TuioImagePattern_calc_key(s_id, u_id)
        new  == TuioImagePattern(R.sid, s_id, u_id)
        pat  == IF key \notin DOMAIN R.patterns THEN new.pat ELSE R.patterns[key]
        sid  == IF key \notin DOMAIN R.patterns THEN new.st ELSE R.sid
    IN  [R EXCEPT !.patterns = DictSet(@, key, [pat EXCEPT !.bnd = bnd_msg.bnd]),
                  !.pattern_update_times = [k \in DOMAIN @ \cup {key} |-> timestamp],
                  !.update_log.bnd = LogOnce(@, key),
                  !.sid = sid]

\* One iteration of the loop of _process_bnd_updates.
bnd_update(R, bnd_msg, timestamp) ==
    LET s_id == bnd_msg.s_id
        u_id == bnd_msg.u_id
        key  == TuioImagePattern_calc_key(s_id, u_id)
        new  == TuioImagePattern(R.sid, s_id, u_id)
        pat  == IF key \notin DOMAIN R.patterns THEN new.pat ELSE R.patterns[key]
        sid  == IF key \notin DOMAIN R.patterns THEN new.st ELSE R.sid
    IN  [R EXCEPT !.patterns = DictSet(@, key, [pat EXCEPT !.bnd = bnd_msg.bnd]),
                  !.pattern_update_times = DictSet(@, key, timestamp),
                  !.update_log.bnd = LogOnce(@, key),
                  !.sid = sid]

\* Mutant of _process_bnd_updates: the message enqueued last is applied
\* first.
RECURSIVE _process_bnd_updates_Lifo(_, _, _)
_process_bnd_updates_Lifo(R, queue, timestamp) ==
    IF queue = <<>> THEN R
    ELSE bnd_update(_process_bnd_updates_Lifo(R, Tail(queue), timestamp), Head(queue),
                    timestamp)

RECURSIVE _process_bnd_updates(_, _, _)
_process_bnd_updates(R, queue, timestamp) ==
    IF queue = <<>> THEN R
    ELSE _process_bnd_updates(bnd_update(R, Head(queue), timestamp), Tail(queue), timestamp)

\* One iteration of the loop of _process_sym_updates.
sym_update(R, sym_msg, timestamp) ==
    LET s_id == sym_msg.s_id
        u_id == sym_msg.u_id
        key  == TuioImagePattern_calc_key(s_id, u_id)
        new  == TuioImagePattern(R.sid, s_id, u_id)
        R1   == IF key \notin DOMAIN R.patterns
                THEN [R EXCEPT !.patterns = DictSet(@, key, new.pat),
                               !.pattern_update_times = DictSet(@, key, timestamp),
                               !.sid = new.st]
                ELSE R
    IN  IF ~TuioSymbol_eq(R1.patterns[key].sym, sym_msg.sym)
        THEN [R1 EXCEPT !.patterns[key].sym = sym_msg.sym,
                        !.pattern_update_times = DictSet(@, key, timestamp),
                        !.update_log.sym = LogOnce(@, key)]
        ELSE R1

RECURSIVE _process_sym_updates(_, _, _)
_process_sym_updates(R, queue, timestamp) ==
    IF queue = <<>> THEN R
    ELSE _process_sym_updates(sym_update(R, Head(queue), timestamp), Tail(queue), timestamp)

\* Mutant of the loop body of _process_ptr_updates: the previous pointer's
\* data is not appended to the new one.
ptr_update_NoCarry(R, ptr_msg, timestamp) ==
    LET ptr == ptr_msg.ptr
        key == TuioPointer_key(ptr)
    IN  [R EXCEPT !.pointers = DictSet(@, key, ptr),
                  !.pointer_update_times = DictSet(@, key, timestamp),
                  !.update_log.ptr = LogOnce(@, key)]

\* One iteration of the loop of _process_ptr_updates.
ptr_update(R, ptr_msg, timestamp) ==
    LET ptr  == ptr_msg.ptr
        key  == TuioPointer_key(ptr)
        data == IF key \in DOMAIN R.pointers
                THEN append_data_list(ptr.data, R.pointers[key].data, TRUE)
                ELSE ptr.data
    IN  [R EXCEPT !.pointers = DictSet(@, key, [ptr EXCEPT !.data = data]),
                  !.pointer_update_times = DictSet(@, key, timestamp),
                  !.update_log.ptr = LogOnce(@, key)]

RECURSIVE _process_ptr_updates(_, _, _)
_process_ptr_updates(R, queue, timestamp) ==
    IF queue = <<>> THEN R
    ELSE _process_ptr_updates(ptr_update(R, Head(queue), timestamp), Tail(queue), timestamp)

\* Mutant of the loop body of _process_dat_updates: only append_data is
\* guarded by the lookup, the time stamp and the log entry are not.
dat_update_Unguarded(R, dat_msg, timestamp) ==
    LET dat == dat_msg.dat
        key == TuioPointer_calc_key(dat_msg.s_id, dat_msg.u_id, dat_msg.c_id)
        R1  == IF key \in DOMAIN R.pointers
               THEN [R EXCEPT !.pointers[key].data = append_data(@, dat, TRUE)]
               ELSE R
    IN  [R1 EXCEPT !.pointer_update_times = DictSet(@, key, timestamp),
                   !.update_log.dat = Append(@, key)]

\* Mutant of the loop body of _process_dat_updates: the pointer's update
\* time is not set.
dat_update_Unstamped(R, dat_msg, timestamp) ==
    LET dat == dat_msg.dat
        key == TuioPointer_calc_key(dat_msg.s_id, dat_msg.u_id, dat_msg.c_id)
    IN  IF key \in DOMAIN R.pointers
        THEN [R EXCEPT !.pointers[key].data = append_data(@, dat, TRUE),
                       !.update_log.dat = Append(@, key)]
        ELSE R

\* One iteration of the loop of _process_dat_updates.
dat_update(R, dat_msg, timestamp) ==
    LET dat == dat_msg.dat
        key == TuioPointer_calc_key(dat_msg.s_id, dat_msg.u_id, dat_msg.c_id)
    IN  IF key \in DOMAIN R.pointers
        THEN [R EXCEPT !.pointers[key].data = append_data(@, dat, TRUE),
                       !.pointer_update_times = DictSet(@, key, timestamp),
                       !.update_log.dat = Append(@, key)]
        ELSE R

RECURSIVE _process_dat_updates(_, _, _)
_process_dat_updates(R, queue, timestamp) ==
    IF queue = <<>> THEN R
    ELSE _process_dat_updates(dat_update(R, Head(queue), timestamp), Tail(queue), timestamp)

\* Mutant of the test of _remove_expired_elements: ">=" for ">".
Expired_AtTimeout(timestamp, last_updated, timeout) == timestamp - last_updated >= timeout

\* The test of _remove_expired_elements on one entity.
Expired(timestamp, last_updated, timeout) == timestamp - last_updated > timeout

\* Mutant of a loop of _remove_expired_elements: it stops after the first
\* element it deletes.
KeptKeys_FirstOnly(elements, update_times, timestamp, timeout) ==
    LET gone == {k \in DOMAIN elements : Expired(timestamp, update_times[k], timeout)} IN
    IF timeout > 0 /\ gone # {}
    THEN DOMAIN elements \ {CHOOSE k \in gone : TRUE}
    ELSE DOMAIN elements

\* Mutant of _remove_expired_elements: the loops run whatever the timeout is.
KeptKeys_Unguarded(elements, update_times, timestamp, timeout) ==
    {k \in DOMAIN elements : ~Expired(timestamp, update_times[k], timeout)}

\* _remove_expired_elements: the keys each of the two loops keeps.
KeptKeys(elements, update_times, timestamp, timeout) ==
    IF timeout > 0
    THEN {k \in DOMAIN elements : ~Expired(timestamp, update_times[k], timeout)}
    ELSE DOMAIN elements

\* Mutant of _remove_expired_elements: the update times of the deleted
\* elements are left behind.
_remove_expired_elements_KeepsTimes(R, timestamp, timeout) ==
    LET pat == KeptKeys(R.patterns, R.pattern_update_times, timestamp, timeout)
        ptr == KeptKeys(R.pointers, R.pointer_update_times, timestamp, timeout)
    IN  [R EXCEPT !.patterns = [k \in pat |-> @[k]],
                  !.pointers = [k \in ptr |-> @[k]]]

_remove_expired_elements(R, timestamp, timeout) ==
    LET pat == KeptKeys(R.patterns, R.pattern_update_times, timestamp, timeout)
        ptr == KeptKeys(R.pointers, R.pointer_update_times, timestamp, timeout)
        gone_pat == DOMAIN R.patterns \ pat
        gone_ptr == DOMAIN R.pointers \ ptr
    IN  [R EXCEPT
           !.patterns = [k \in pat |-> @[k]],
           !.pattern_update_times = [k \in DOMAIN @ \ gone_pat |-> @[k]],
           !.pointers = [k \in ptr |-> @[k]],
           !.pointer_update_times = [k \in DOMAIN @ \ gone_ptr |-> @[k]]]

\* Mutant of update_elements: the dat queue is drained before the ptr queue.
UpdateSteps_DatFirst(R, q, timestamp, timeout) ==
    LET R_bnd == _process_bnd_updates(R, q.bnd, timestamp)
        R_sym == _process_sym_updates(R_bnd, q.sym, timestamp)
        R_dat == _process_dat_updates(R_sym, q.dat, timestamp)
        R_ptr == _process_ptr_updates(R_dat, q.ptr, timestamp)
        R_exp == _remove_expired_elements(R_ptr, timestamp, timeout)
    IN  [bnd |-> R_bnd, sym |-> R_sym, ptr |-> R_ptr, dat |-> R_dat, expire |-> R_exp]

\* update_elements: the registry after each of its five calls, in their order.
UpdateSteps(R, q, timestamp, timeout) ==
    LET R_bnd == _process_bnd_updates(R, q.bnd, timestamp)
        R_sym == _process_sym_updates(R_bnd, q.sym, timestamp)
        R_ptr == _process_ptr_updates(R_sym, q.ptr, timestamp)
        R_dat == _process_dat_updates(R_ptr, q.dat, timestamp)
        R_exp == _remove_expired_elements(R_dat, timestamp, timeout)
    IN  [bnd |-> R_bnd, sym |-> R_sym, ptr |-> R_ptr, dat |-> R_dat, expire |-> R_exp]

----------------------------------------------------------------------------
(* History kept for the properties: what each pattern has received since   *)
(* it was created, and of the poll that is returning: the queues it        *)
(* drained, the registry it started from and the registry after each call. *)

EmptyRegistry == [patterns |-> EmptyDict, pattern_update_times |-> EmptyDict,
                  pointers |-> EmptyDict, pointer_update_times |-> EmptyDict,
                  update_log |-> EmptyLog, sid |-> SessionIdInit]

NoPoll == [queues |-> EmptyLog, start |-> EmptyRegistry,
           after |-> [bnd |-> EmptyRegistry, sym |-> EmptyRegistry, ptr |-> EmptyRegistry,
                      dat |-> EmptyRegistry, expire |-> EmptyRegistry]]

PatKey(msg) == TuioImagePattern_calc_key(msg.s_id, msg.u_id)

DatKey(msg) == TuioPointer_calc_key(msg.s_id, msg.u_id, msg.c_id)

HistNew == [got_bnd |-> FALSE, got_valid_bnd |-> FALSE, last_bnd |-> TuioBounds_default,
            got_sym |-> FALSE]

RECURSIVE HistBnd(_, _)
HistBnd(h, queue) ==
    IF queue = <<>> THEN h
    ELSE LET m   == Head(queue)
             old == IF PatKey(m) \in DOMAIN h THEN h[PatKey(m)] ELSE HistNew
         IN  HistBnd(DictSet(h, PatKey(m),
                             [old EXCEPT !.got_bnd = TRUE,
                                         !.got_valid_bnd = @ \/ (m.bnd.width > 0 /\ m.bnd.height > 0),
                                         !.last_bnd = m.bnd]),
                     Tail(queue))

RECURSIVE HistSym(_, _)
HistSym(h, queue) ==
    IF queue = <<>> THEN h
    ELSE LET m   == Head(queue)
             old == IF PatKey(m) \in DOMAIN h THEN h[PatKey(m)] ELSE HistNew
         IN  HistSym(DictSet(h, PatKey(m), [old EXCEPT !.got_sym = TRUE]), Tail(queue))

\* No load_patterns call yet; no tracking round under way.  In a round,
\* frame_pattern is PatternTracking._frame_pattern as the round has set it.
NoLoad == [paths |-> <<>>, matching_scale |-> 1, reports |-> <<>>]

\* No subprocess: self._subprocess is None.
NoSubprocess == [pid |-> 0, state |-> "none", returncode |-> 0]

\* ProcessWrapper.__init__; return_code None is the empty sequence.
NewProcessWrapper ==
    [_running |-> FALSE, _subprocess |-> NoSubprocess, _process_args |-> <<>>,
     return_code |-> <<>>, raised |-> FALSE]

\* The values of mime_type, and the ExtensionData attached to elements.
MimeTypes == {"string", "image"}

DataValues == {TuioData(m, v) : m \in MimeTypes, v \in {"v1", "v2"}}

NoData == TuioData("", "")

NoSetterCall == [op |-> "", arg |-> 0, before |-> TuioBounds_default]

\* TuioImagePattern(s_id=0, u_id=0): default bounds and symbol, no data.
\* latest is the ExtensionData inserted last for each mime type, ops counts
\* the append calls, call is the last setter call and the bounds it found.
NewElement ==
    [pat |-> TuioImagePattern(SessionIdInit, 0, 0).pat,
     latest |-> [m \in MimeTypes |-> NoData],
     ops |-> 0,
     call |-> NoSetterCall]

\* Nothing sent yet.
NoSend == [op |-> "", elements |-> <<>>, wire |-> <<>>]

\* No direct call yet.
NoCall == [op |-> "", pattern |-> SiftPattern("", None), frame |-> SiftPattern("", None),
           good |-> NoGood, raised |-> FALSE, error |-> None, ret_good |-> 0, ret_M |-> FALSE,
           res |-> <<>>]

\* No history kept.  With on, enq lists per kind the messages put on the
\* queue, app the messages the loops have taken off it, polls counts the
\* update_elements calls begun.
NoTrace == [on |-> FALSE, enq |-> EmptyLog, app |-> EmptyLog, polls |-> 0]

\* TuioReceiver(ip, port): element_timeout is left at its default, 1.0.
DefaultTimeout == 1

\* The four multiprocessing.Queue objects made when the def statement of
\* TuioDispatcher.__init__ is executed, by their identity: the values of its
\* default arguments.
TuioDispatcher_defaults == [bnd_queue |-> 1, sym_queue |-> 2, ptr_queue |-> 3, dat_queue |-> 4]

\* TuioDispatcher.__init__: the dispatcher keeps the queues it is given.
TuioDispatcher_init(bnd_queue_arg, sym_queue_arg, ptr_queue_arg, dat_queue_arg) ==
    [bnd_queue |-> bnd_queue_arg, sym_queue |-> sym_queue_arg, ptr_queue |-> ptr_queue_arg,
     dat_queue |-> dat_queue_arg]

\* TuioReceiver.__init__: TuioDispatcher() is called without arguments.
TuioReceiver_init(timeout) ==
    [_dispatcher |-> TuioDispatcher_init(TuioDispatcher_defaults.bnd_queue,
                                         TuioDispatcher_defaults.sym_queue,
                                         TuioDispatcher_defaults.ptr_queue,
                                         TuioDispatcher_defaults.dat_queue),
     R |-> EmptyRegistry,
     _element_timeout |-> timeout,
     drained |-> <<>>]

Receivers == {1, 2}

\* Two receivers constructed one after the other: the queue objects with
\* their contents, the receivers (drained lists the messages each has taken
\* off a queue), the number of messages delivered.
NewPair ==
    [queue |-> [id \in 1..4 |-> <<>>],
     recv  |-> [r \in Receivers |-> TuioReceiver_init(DefaultTimeout)],
     delivered |-> 0]

\* webutils: the sessions of the two ReST clients.  A response is what
\* requests.post / requests.delete gives: an exception (no connection), or a
\* status code with a content type and the json data of the body.
ServerUuids == {"u1", "u2"}

NoJson == [uuid |-> None, id |-> -1, port |-> -1]

\* The json a server answers a registration with: the uuid and user id it
\* assigns, and the port it assigns (all ports of one answer are modelled by
\* one number).
ServerData == {[uuid |-> u, id |-> 1, port |-> 6000] : u \in ServerUuids}

ConnectionError == [raised |-> TRUE, status_code |-> 0, content_type |-> "", data |-> NoJson]

HttpError == [raised |-> FALSE, status_code |-> 500, content_type |-> "text/html", data |-> NoJson]

HttpOk(content_type, data) ==
    [raised |-> FALSE, status_code |-> 200, content_type |-> content_type, data |-> data]

PostResponses ==
    {ConnectionError, HttpError, HttpOk("text/html", NoJson)}
        \cup {HttpOk("application/json", d) : d \in ServerData}

DeleteResponses == {ConnectionError, HttpError, HttpOk("text/html", NoJson)}

\* SurfaceStreamsSession.__init__ with its default arguments.
SurfaceStreamsSession_init ==
    [_is_connected |-> FALSE, _video_src_port |-> 5002, _video_sink_port |-> -1,
     _tuio_sink_port |-> -1, _uuid |-> None, _id |-> None]

\* RemoteTrackingSession.__init__ with its default arguments (no patterns
\* config, so connect uploads nothing).
RemoteTrackingSession_init ==
    [_is_connected |-> FALSE, _frame_port |-> -1, _surface_streams_server_tuio_port |-> 5001,
     _uuid |-> None, _user_id |-> -1]

\* What a call leaves: the session, what it returns ("True", "False" or
\* "raised" with the exception), and whether a request was sent.
CallOutcome(session, ret, error, requested) ==
    [session |-> session, ret |-> ret, error |-> error, sent |-> requested]

\* SurfaceStreamsSession.connect, r being the answer to the POST.
SurfaceStreamsSession_connect(session, r) ==
    IF session._is_connected THEN CallOutcome(session, "False", None, FALSE)
    ELSE IF r.raised THEN CallOutcome(session, "raised", "ConnectionError", TRUE)
    ELSE IF r.status_code = 200
    THEN IF r.content_type = "application/json"
         THEN CallOutcome([session EXCEPT !._video_src_port = r.data.port,
                                          !._video_sink_port = r.data.port,
                                          !._tuio_sink_port = r.data.port,
                                          !._uuid = r.data.uuid,
                                          !._id = r.data.id,
                                          !._is_connected = TRUE],
                          "True", None, TRUE)
         ELSE CallOutcome(session, "raised", "ValueError", TRUE)
    ELSE CallOutcome(session, "False", None, TRUE)

\* RemoteTrackingSession.connect, r being the answer to the POST.
RemoteTrackingSession_connect(session, r) ==
    IF session._is_connected THEN CallOutcome(session, "False", None, FALSE)
    ELSE IF r.raised THEN CallOutcome(session, "raised", "ConnectionError", TRUE)
    ELSE IF r.status_code = 200
    THEN IF r.content_type = "application/json"
         THEN CallOutcome([session EXCEPT !._frame_port = r.data.port,
                                          !._surface_streams_server_tuio_port = r.data.port,
                                          !._uuid = r.data.uuid,
                                          !._user_id = r.data.id,
                                          !._is_connected = TRUE],
                          "True", None, TRUE)
         ELSE CallOutcome(session, "raised", "ValueError", TRUE)
    ELSE CallOutcome(session, "False", None, TRUE)

\* disconnect of both classes, r being the answer to the DELETE: building
\* the url raises TypeError when the uuid is None (str + None).
Session_disconnect(session, r) ==
    IF ~session._is_connected THEN CallOutcome(session, "False", None, FALSE)
    ELSE IF session._uuid = None THEN CallOutcome(session, "raised", "TypeError", FALSE)
    ELSE IF r.raised THEN CallOutcome(session, "raised", "ConnectionError", TRUE)
    ELSE IF r.status_code = 200
    THEN CallOutcome([session EXCEPT !._uuid = None], "True", None, TRUE)
    ELSE CallOutcome(session, "False", None, TRUE)

Sessions == {"surface_streams", "remote_tracking"}

NoWebCall == [of |-> "", call |-> "", was_linked |-> FALSE, ret |-> "", error |-> None,
              sent |-> FALSE]

\* One session of each class, the last call made, and for each session
\* whether its last successful call was connect (linked).
NewSession ==
    [surface_streams |-> SurfaceStreamsSession_init,
     remote_tracking |-> RemoteTrackingSession_init,
     linked |-> [s \in Sessions |-> FALSE],
     last |-> NoWebCall]

NoRound == [pc |-> "idle", call |-> "", image |-> NoFrame, num_threads |-> 0, lists |-> <<>>,
            threads |-> <<>>, joined |-> 0, res |-> <<>>, raised |-> FALSE,
            frame_pattern |-> SiftPattern("THE-FRAME", None)]

----------------------------------------------------------------------------
(* The state machine.                                                      *)

Registry == [patterns |-> patterns, pattern_update_times |-> pattern_update_times,
             pointers |-> pointers, pointer_update_times |-> pointer_update_times,
             update_log |-> update_log, sid |-> main_sid]

SetRegistry(R) ==
    /\ patterns' = R.patterns
    /\ pattern_update_times' = R.pattern_update_times
    /\ pointers' = R.pointers
    /\ pointer_update_times' = R.pointer_update_times
    /\ update_log' = R.update_log
    /\ main_sid' = R.sid

\* TuioReceiver.__init__: empty queues and maps, the element_timeout given.
Init ==
    /\ bnd_queue = <<>> /\ sym_queue = <<>> /\ ptr_queue = <<>> /\ dat_queue = <<>>
    /\ patterns = EmptyDict /\ pattern_update_times = EmptyDict
    /\ pointers = EmptyDict /\ pointer_update_times = EmptyDict
    /\ element_timeout \in Timeouts
    /\ server = "created"
    /\ srv_sid = SessionIdInit /\ main_sid = SessionIdInit
    /\ clock = 0
    /\ pc = "idle" /\ time_now = 0 /\ update_log = EmptyLog
    /\ received = 0 /\ bad_syms = 0 /\ handler_errors = 0 /\ processed = 0
    /\ poll = NoPoll /\ pat_hist = EmptyDict
    /\ sent = <<>>
    /\ sid_calls = <<>>
    /\ tracker_patterns = <<>> /\ load_log = NoLoad /\ tracking_round = NoRound
    /\ matcher_call = NoCall
    /\ sender_call = NoSend
    /\ element = NewElement
    /\ proc = NewProcessWrapper
    /\ trace = NoTrace /\ pair = NewPair /\ web = NewSession

\* OscReceiver.start: the server process starts with a copy of the class state.
Start ==
    /\ server = "created"
    /\ server' = "serving"
    /\ srv_sid' = main_sid
    /\ UNCHANGED <<queues, maps, element_timeout, main_sid, clock, pc, time_now, update_log,
                   received, bad_syms, handler_errors, processed, poll, pat_hist, sent, side_vars>>

\* time.time() advances.
Tick ==
    /\ pc = "idle"
    /\ clock < MaxTime
    /\ clock' = clock + 1
    /\ UNCHANGED <<queues, maps, element_timeout, server, srv_sid, main_sid, pc, time_now,
                   update_log, received, bad_syms, handler_errors, processed, poll, pat_hist, sent, side_vars>>

\* Mutant of the delivery: the handlers still run after terminate.
Delivery_AfterStop ==
    server \in {"serving", "terminated"} /\ pc = "idle" /\ received < MaxMsgs

Delivery == server = "serving" /\ pc = "idle" /\ received < MaxMsgs

Counted(r) ==
    /\ received' = received + 1
    /\ handler_errors' = handler_errors + (IF r.raised THEN 1 ELSE 0)

\* Mutant of the bnd receive path: the handler writes the bounds into the
\* registry's pattern map instead of the queue.
Recv_bnd_Direct ==
    /\ Delivery
    /\ \E a \in BndArgs :
         LET r == bnd_handler(<<>>, a[1], a[2], a[3], a[4], a[5], a[6], a[7])
             R == bnd_update(Registry, Head(r.queue), clock)
         IN  /\ patterns' = R.patterns
             /\ pattern_update_times' = R.pattern_update_times
             /\ main_sid' = R.sid
             /\ pat_hist' = HistBnd(pat_hist, r.queue)
             /\ received' = received + 1
             /\ processed' = processed + 1
    /\ UNCHANGED <<queues, pointers, pointer_update_times, element_timeout, server, srv_sid,
                   clock, pc, time_now, update_log, bad_syms, handler_errors, poll, sent, side_vars>>

\* A /tuio2/bnd message arrives.
Recv_bnd ==
    /\ Delivery
    /\ \E a \in BndArgs :
         LET r == bnd_handler(bnd_queue, a[1], a[2], a[3], a[4], a[5], a[6], a[7]) IN
         /\ bnd_queue' = r.queue
         /\ Counted(r)
    /\ UNCHANGED <<sym_queue, ptr_queue, dat_queue, maps, element_timeout, server, srv_sid,
                   main_sid, clock, pc, time_now, update_log, bad_syms, processed, poll, pat_hist, sent, side_vars>>

\* A /tuio2/sym message arrives, its id-type "uuid" or "name".
Recv_sym ==
    /\ Delivery
    /\ \E a \in SymArgs :
         LET r == sym_handler(sym_queue, a[1], a[2], a[3], a[4], a[5], a[6]) IN
         /\ sym_queue' = r.queue
         /\ Counted(r)
         /\ bad_syms' = bad_syms + (IF a[5] = "uuid" THEN 0 ELSE 1)
    /\ UNCHANGED <<bnd_queue, ptr_queue, dat_queue, maps, element_timeout, server, srv_sid,
                   main_sid, clock, pc, time_now, update_log, processed, poll, pat_hist, sent, side_vars>>

\* A /tuio2/ptr message arrives.
Recv_ptr ==
    /\ Delivery
    /\ \E a \in PtrArgs :
         LET r == ptr_handler(ptr_queue, srv_sid, a[1], a[2], a[3], a[4], a[5], a[6], a[7],
                              a[8], a[9], a[10]) IN
         /\ ptr_queue' = r.queue
         /\ srv_sid' = r.sid
         /\ Counted(r)
    /\ UNCHANGED <<bnd_queue, sym_queue, dat_queue, maps, element_timeout, server, main_sid,
                   clock, pc, time_now, update_log, bad_syms, processed, poll, pat_hist, sent, side_vars>>

\* A /tuio2/dat message arrives.
Recv_dat ==
    /\ Delivery
    /\ \E a \in DatArgs :
         LET r == dat_handler(dat_queue, a[1], a[2], a[3], a[4], a[5]) IN
         /\ dat_queue' = r.queue
         /\ Counted(r)
    /\ UNCHANGED <<bnd_queue, sym_queue, ptr_queue, maps, element_timeout, server, srv_sid,
                   main_sid, clock, pc, time_now, update_log, bad_syms, processed, poll, pat_hist, sent, side_vars>>

\* TuioReceiver.update_elements, up to its return statement.
update_elements ==
    /\ pc = "idle"
    /\ LET q     == [bnd |-> bnd_queue, sym |-> sym_queue, ptr |-> ptr_queue, dat |-> dat_queue]
           R     == [Registry EXCEPT !.update_log = EmptyLog]
           steps == UpdateSteps(R, q, clock, element_timeout)
       IN  /\ SetRegistry(steps.expire)
           /\ poll' = [queues |-> q, start |-> R, after |-> steps]
           /\ pat_hist' = [k \in DOMAIN steps.expire.patterns |->
                             HistSym(HistBnd(pat_hist, bnd_queue), sym_queue)[k]]
    /\ time_now' = clock
    /\ bnd_queue' = <<>> /\ sym_queue' = <<>> /\ ptr_queue' = <<>> /\ dat_queue' = <<>>
    /\ processed' = processed + Len(bnd_queue) + Len(sym_queue) + Len(ptr_queue) + Len(dat_queue)
    /\ pc' = "return"
    /\ UNCHANGED <<element_timeout, server, srv_sid, clock, received, bad_syms, handler_errors,
                   sent, side_vars>>

\* return update_log: the caller has the log, the locals are gone.
update_elements_return ==
    /\ pc = "return"
    /\ pc' = "idle"
    /\ update_log' = EmptyLog
    /\ time_now' = 0
    /\ poll' = NoPoll
    /\ sent' = <<>>
    /\ UNCHANGED <<queues, maps, element_timeout, server, srv_sid, main_sid, clock,
                   received, bad_syms, handler_errors, processed, pat_hist, side_vars>>

Next ==
    \/ Start
    \/ Tick
    \/ Recv_bnd
    \/ Recv_sym
    \/ Recv_ptr
    \/ Recv_dat
    \/ update_elements
    \/ update_elements_return

Spec == Init /\ [][Next]_vars

\* The receiver constructed with an element_timeout that disables eviction.
DisabledTimeouts == {-1, 0}

InitNoEviction ==
    /\ bnd_queue = <<>> /\ sym_queue = <<>> /\ ptr_queue = <<>> /\ dat_queue = <<>>
    /\ patterns = EmptyDict /\ pattern_update_times = EmptyDict
    /\ pointers = EmptyDict /\ pointer_update_times = EmptyDict
    /\ element_timeout \in DisabledTimeouts
    /\ server = "created"
    /\ srv_sid = SessionIdInit /\ main_sid = SessionIdInit
    /\ clock = 0
    /\ pc = "idle" /\ time_now = 0 /\ update_log = EmptyLog
    /\ received = 0 /\ bad_syms = 0 /\ handler_errors = 0 /\ processed = 0
    /\ poll = NoPoll /\ pat_hist = EmptyDict
    /\ sent = <<>>
    /\ sid_calls = <<>>
    /\ tracker_patterns = <<>> /\ load_log = NoLoad /\ tracking_round = NoRound
    /\ matcher_call = NoCall
    /\ sender_call = NoSend
    /\ element = NewElement
    /\ proc = NewProcessWrapper
    /\ trace = NoTrace /\ pair = NewPair /\ web = NewSession

SpecNoEviction == InitNoEviction /\ [][Next]_vars

----------------------------------------------------------------------------
(* The receiver with its shutdown.                                         *)

\* OscReceiver.terminate, called between two polls: the server process is
\* killed, and a process cannot be started twice.
Terminate ==
    /\ server = "serving" /\ pc = "idle"
    /\ server' = "terminated"
    /\ UNCHANGED <<queues, maps, element_timeout, srv_sid, main_sid, clock, pc, time_now,
                   update_log, received, bad_syms, handler_errors, processed, poll, pat_hist,
                   sent, side_vars>>

NextShutdown ==
    \/ Start
    \/ Tick
    \/ Recv_bnd
    \/ Recv_sym
    \/ Recv_ptr
    \/ Recv_dat
    \/ Terminate
    \/ update_elements
    \/ update_elements_return

InitShutdown ==
    /\ bnd_queue = <<>> /\ sym_queue = <<>> /\ ptr_queue = <<>> /\ dat_queue = <<>>
    /\ patterns = EmptyDict /\ pattern_update_times = EmptyDict
    /\ pointers = EmptyDict /\ pointer_update_times = EmptyDict
    /\ element_timeout = DefaultTimeout
    /\ server = "created"
    /\ srv_sid = SessionIdInit /\ main_sid = SessionIdInit
    /\ clock = 0
    /\ pc = "idle" /\ time_now = 0 /\ update_log = EmptyLog
    /\ received = 0 /\ bad_syms = 0 /\ handler_errors = 0 /\ processed = 0
    /\ poll = NoPoll /\ pat_hist = EmptyDict
    /\ sent = <<>>
    /\ sid_calls = <<>>
    /\ tracker_patterns = <<>> /\ load_log = NoLoad /\ tracking_round = NoRound
    /\ matcher_call = NoCall
    /\ sender_call = NoSend
    /\ element = NewElement
    /\ proc = NewProcessWrapper
    /\ trace = NoTrace /\ pair = NewPair /\ web = NewSession

SpecShutdown == InitShutdown /\ [][NextShutdown]_vars

----------------------------------------------------------------------------
(* The receiver polled while the server delivers: update_elements()        *)
(* statement by statement, each test of a loop condition a step of its     *)
(* own, and the handlers running at any point of it.  A put on a queue is  *)
(* one step.                                                               *)

MaxArrivals == 2      \* messages delivered in one behaviour
MaxPolls == 2         \* update_elements calls begun where the history is kept

ArrivalBnd == {<<1, 0, 0, 0, 0, 1, 1>>, <<1, 0, 1, 0, 0, 0, 1>>}
ArrivalSym == {<<1, 0, 0, 0, "uuid", "a">>}
ArrivalPtr == {<<1, 0, 0, 0, 0, 0, 0, 0, 10, FALSE>>}
ArrivalDat == {<<1, 0, 0, "m1", "v1">>}

\* The statements of update_elements in their order.
PcOrder == [idle |-> 0, bnd |-> 1, sym |-> 2, ptr |-> 3, dat |-> 4, expire |-> 5, return |-> 6]

\* The poll whose loop of the kind is still to test its queue: the one under
\* way, or the next one when none is under way or its loop has ended.
Due(kind) ==
    IF pc = "idle" \/ PcOrder[pc] > PcOrder[kind] THEN trace.polls + 1 ELSE trace.polls

Arrival == server = "serving" /\ received < MaxArrivals

Arrived(kind, queue_after) ==
    trace' = IF trace.on
             THEN [trace EXCEPT !.enq[kind] =
                      Append(@, [msg |-> queue_after[Len(queue_after)], at |-> pc,
                                 due |-> Due(kind)])]
             ELSE trace

Applied(kind, msg) ==
    trace' = IF trace.on
             THEN [trace EXCEPT !.app[kind] = Append(@, [msg |-> msg, poll |-> trace.polls])]
             ELSE trace

\* A /tuio2/bnd message arrives, a poll under way or not.
Arrive_bnd ==
    /\ Arrival
    /\ \E a \in ArrivalBnd :
         LET r == bnd_handler(bnd_queue, a[1], a[2], a[3], a[4], a[5], a[6], a[7]) IN
         /\ bnd_queue' = r.queue
         /\ Counted(r)
         /\ Arrived("bnd", r.queue)
    /\ UNCHANGED <<sym_queue, ptr_queue, dat_queue, maps, element_timeout, server, srv_sid,
                   main_sid, clock, pc, time_now, update_log, bad_syms, processed, poll, pat_hist,
                   sent, sid_calls, tracking_vars, unit_vars, pair, web>>

Arrive_sym ==
    /\ Arrival
    /\ \E a \in ArrivalSym :
         LET r == sym_handler(sym_queue, a[1], a[2], a[3], a[4], a[5], a[6]) IN
         /\ sym_queue' = r.queue
         /\ Counted(r)
         /\ Arrived("sym", r.queue)
    /\ UNCHANGED <<bnd_queue, ptr_queue, dat_queue, maps, element_timeout, server, srv_sid,
                   main_sid, clock, pc, time_now, update_log, bad_syms, processed, poll, pat_hist,
                   sent, sid_calls, tracking_vars, unit_vars, pair, web>>

Arrive_ptr ==
    /\ Arrival
    /\ \E a \in ArrivalPtr :
         LET r == ptr_handler(ptr_queue, srv_sid, a[1], a[2], a[3], a[4], a[5], a[6], a[7],
                              a[8], a[9], a[10]) IN
         /\ ptr_queue' = r.queue
         /\ srv_sid' = r.sid
         /\ Counted(r)
         /\ Arrived("ptr", r.queue)
    /\ UNCHANGED <<bnd_queue, sym_queue, dat_queue, maps, element_timeout, server, main_sid,
                   clock, pc, time_now, update_log, bad_syms, processed, poll, pat_hist,
                   sent, sid_calls, tracking_vars, unit_vars, pair, web>>

Arrive_dat ==
    /\ Arrival
    /\ \E a \in ArrivalDat :
         LET r == dat_handler(dat_queue, a[1], a[2], a[3], a[4], a[5]) IN
         /\ dat_queue' = r.queue
         /\ Counted(r)
         /\ Arrived("dat", r.queue)
    /\ UNCHANGED <<bnd_queue, sym_queue, ptr_queue, maps, element_timeout, server, srv_sid,
                   main_sid, clock, pc, time_now, update_log, bad_syms, processed, poll, pat_hist,
                   sent, sid_calls, tracking_vars, unit_vars, pair, web>>

\* update_elements is called: update_log and time_now are set.
update_elements_begin ==
    /\ pc = "idle"
    /\ trace.on => trace.polls < MaxPolls
    /\ update_log' = EmptyLog
    /\ time_now' = clock
    /\ pc' = "bnd"
    /\ trace' = IF trace.on THEN [trace EXCEPT !.polls = @ + 1] ELSE trace
    /\ UNCHANGED <<queues, maps, element_timeout, server, srv_sid, main_sid, clock, received,
                   bad_syms, handler_errors, processed, poll, pat_hist, sent, sid_calls,
                   tracking_vars, unit_vars, pair, web>>

\* Mutant of loop_bnd: an iteration takes the first message and throws the
\* rest of the queue away.
loop_bnd_Flush ==
    /\ pc = "bnd"
    /\ IF bnd_queue # <<>>
       THEN /\ SetRegistry(bnd_update(Registry, Head(bnd_queue), time_now))
            /\ bnd_queue' = <<>>
            /\ processed' = processed + 1
            /\ Applied("bnd", Head(bnd_queue))
            /\ pc' = pc
       ELSE /\ pc' = "sym"
            /\ UNCHANGED <<bnd_queue, maps, update_log, main_sid, processed, trace>>
    /\ UNCHANGED <<sym_queue, ptr_queue, dat_queue, element_timeout, server, srv_sid, clock,
                   time_now, received, bad_syms, handler_errors, poll, pat_hist, sent, sid_calls,
                   tracking_vars, unit_vars, pair, web>>

\* _process_bnd_updates: one test of "while not bnd_queue.empty()" and the
\* iteration it lets in, or the end of the loop.
loop_bnd ==
    /\ pc = "bnd"
    /\ IF bnd_queue # <<>>
       THEN /\ SetRegistry(bnd_update(Registry, Head(bnd_queue), time_now))
            /\ bnd_queue' = Tail(bnd_queue)
            /\ processed' = processed + 1
            /\ Applied("bnd", Head(bnd_queue))
            /\ pc' = pc
       ELSE /\ pc' = "sym"
            /\ UNCHANGED <<bnd_queue, maps, update_log, main_sid, processed, trace>>
    /\ UNCHANGED <<sym_queue, ptr_queue, dat_queue, element_timeout, server, srv_sid, clock,
                   time_now, received, bad_syms, handler_errors, poll, pat_hist, sent, sid_calls,
                   tracking_vars, unit_vars, pair, web>>

\* _process_sym_updates, in the same way.
loop_sym ==
    /\ pc = "sym"
    /\ IF sym_queue # <<>>
       THEN /\ SetRegistry(sym_update(Registry, Head(sym_queue), time_now))
            /\ sym_queue' = Tail(sym_queue)
            /\ processed' = processed + 1
            /\ Applied("sym", Head(sym_queue))
            /\ pc' = pc
       ELSE /\ pc' = "ptr"
            /\ UNCHANGED <<sym_queue, maps, update_log, main_sid, processed, trace>>
    /\ UNCHANGED <<bnd_queue, ptr_queue, dat_queue, element_timeout, server, srv_sid, clock,
                   time_now, received, bad_syms, handler_errors, poll, pat_hist, sent, sid_calls,
                   tracking_vars, unit_vars, pair, web>>

\* _process_ptr_updates.
loop_ptr ==
    /\ pc = "ptr"
    /\ IF ptr_queue # <<>>
       THEN /\ SetRegistry(ptr_update(Registry, Head(ptr_queue), time_now))
            /\ ptr_queue' = Tail(ptr_queue)
            /\ processed' = processed + 1
            /\ Applied("ptr", Head(ptr_queue))
            /\ pc' = pc
       ELSE /\ pc' = "dat"
            /\ UNCHANGED <<ptr_queue, maps, update_log, main_sid, processed, trace>>
    /\ UNCHANGED <<bnd_queue, sym_queue, dat_queue, element_timeout, server, srv_sid, clock,
                   time_now, received, bad_syms, handler_errors, poll, pat_hist, sent, sid_calls,
                   tracking_vars, unit_vars, pair, web>>

\* Mutant of loop_dat: the loop takes from the queue without testing it, and
\* get() on an empty queue blocks.
loop_dat_Blocking ==
    /\ pc = "dat"
    /\ dat_queue # <<>>
    /\ SetRegistry(dat_update(Registry, Head(dat_queue), time_now))
    /\ dat_queue' = Tail(dat_queue)
    /\ processed' = processed + 1
    /\ Applied("dat", Head(dat_queue))
    /\ pc' = pc
    /\ UNCHANGED <<bnd_queue, sym_queue, ptr_queue, element_timeout, server, srv_sid, clock,
                   time_now, received, bad_syms, handler_errors, poll, pat_hist, sent, sid_calls,
                   tracking_vars, unit_vars, pair, web>>

\* _process_dat_updates.
loop_dat ==
    /\ pc = "dat"
    /\ IF dat_queue # <<>>
       THEN /\ SetRegistry(dat_update(Registry, Head(dat_queue), time_now))
            /\ dat_queue' = Tail(dat_queue)
            /\ processed' = processed + 1
            /\ Applied("dat", Head(dat_queue))
            /\ pc' = pc
       ELSE /\ pc' = "expire"
            /\ UNCHANGED <<dat_queue, maps, update_log, main_sid, processed, trace>>
    /\ UNCHANGED <<bnd_queue, sym_queue, ptr_queue, element_timeout, server, srv_sid, clock,
                   time_now, received, bad_syms, handler_errors, poll, pat_hist, sent, sid_calls,
                   tracking_vars, unit_vars, pair, web>>

\* self._remove_expired_elements(time_now), the last statement before the
\* return.
remove_expired ==
    /\ pc = "expire"
    /\ SetRegistry(_remove_expired_elements(Registry, time_now, element_timeout))
    /\ pc' = "return"
    /\ UNCHANGED <<queues, element_timeout, server, srv_sid, clock, time_now, received, bad_syms,
                   handler_errors, processed, poll, pat_hist, sent, sid_calls, tracking_vars,
                   unit_vars, more_vars>>

PollStep ==
    \/ loop_bnd
    \/ loop_sym
    \/ loop_ptr
    \/ loop_dat
    \/ remove_expired
    \/ update_elements_return

NextInterleaved ==
    \/ Start
    \/ Arrive_bnd
    \/ Arrive_sym
    \/ Arrive_ptr
    \/ Arrive_dat
    \/ update_elements_begin
    \/ PollStep

\* The history of arrivals and applications is kept; the clock stands.
InitInterleaved ==
    /\ bnd_queue = <<>> /\ sym_queue = <<>> /\ ptr_queue = <<>> /\ dat_queue = <<>>
    /\ patterns = EmptyDict /\ pattern_update_times = EmptyDict
    /\ pointers = EmptyDict /\ pointer_update_times = EmptyDict
    /\ element_timeout = DefaultTimeout
    /\ server = "created"
    /\ srv_sid = SessionIdInit /\ main_sid = SessionIdInit
    /\ clock = 0
    /\ pc = "idle" /\ time_now = 0 /\ update_log = EmptyLog
    /\ received = 0 /\ bad_syms = 0 /\ handler_errors = 0 /\ processed = 0
    /\ poll = NoPoll /\ pat_hist = EmptyDict
    /\ sent = <<>>
    /\ sid_calls = <<>>
    /\ tracker_patterns = <<>> /\ load_log = NoLoad /\ tracking_round = NoRound
    /\ matcher_call = NoCall
    /\ sender_call = NoSend
    /\ element = NewElement
    /\ proc = NewProcessWrapper
    /\ trace = [NoTrace EXCEPT !.on = TRUE] /\ pair = NewPair /\ web = NewSession

SpecInterleaved == InitInterleaved /\ [][NextInterleaved]_vars

\* No history, the clock runs, and the polling thread is scheduled: a
\* statement of update_elements that can run does run.
NextInterleavedTimed == NextInterleaved \/ Tick

SpecInterleavedFair == InitShutdown /\ [][NextInterleavedTimed]_vars /\ WF_vars(PollStep)

----------------------------------------------------------------------------
(* Two TuioReceiver instances of one process, each with a server of its    *)
(* own port.  The messages sent to receiver r carry session id r.          *)

MaxDelivered == 3     \* messages delivered to the two servers together

\* The server of receiver r handles a /tuio2/bnd message.
pair_bnd(r) ==
    /\ pair.delivered < MaxDelivered
    /\ LET id == pair.recv[r]._dispatcher.bnd_queue
           h  == bnd_handler(pair.queue[id], r, 0, 0, 0, 0, 1, 1)
       IN  pair' = [pair EXCEPT !.queue[id] = h.queue, !.delivered = @ + 1]
    /\ UNCHANGED <<receiver_vars, sid_calls, tracking_vars, unit_vars, trace, web>>

\* The server of receiver r handles a /tuio2/ptr message.
pair_ptr(r) ==
    /\ pair.delivered < MaxDelivered
    /\ LET id == pair.recv[r]._dispatcher.ptr_queue
           h  == ptr_handler(pair.queue[id], SessionIdInit, r, 0, 0, 0, 0, 0, 0, 0, 10, FALSE)
       IN  pair' = [pair EXCEPT !.queue[id] = h.queue, !.delivered = @ + 1]
    /\ UNCHANGED <<receiver_vars, sid_calls, tracking_vars, unit_vars, trace, web>>

\* update_elements of receiver r: it drains the queues of its dispatcher.
pair_update_elements(r) ==
    /\ LET d     == pair.recv[r]._dispatcher
           q     == [bnd |-> pair.queue[d.bnd_queue], sym |-> pair.queue[d.sym_queue],
                     ptr |-> pair.queue[d.ptr_queue], dat |-> pair.queue[d.dat_queue]]
           R     == [pair.recv[r].R EXCEPT !.update_log = EmptyLog]
           steps == UpdateSteps(R, q, 0, pair.recv[r]._element_timeout)
       IN  /\ q.bnd \o q.sym \o q.ptr \o q.dat # <<>>
           /\ pair' = [pair EXCEPT
                  !.recv[r].R = steps.expire,
                  !.recv[r].drained = @ \o q.bnd \o q.ptr,
                  !.queue = [id \in 1..4 |->
                                IF id \in {d.bnd_queue, d.sym_queue, d.ptr_queue, d.dat_queue}
                                THEN <<>> ELSE @[id]]]
    /\ UNCHANGED <<receiver_vars, sid_calls, tracking_vars, unit_vars, trace, web>>

NextPair ==
    \/ \E r \in Receivers : pair_bnd(r)
    \/ \E r \in Receivers : pair_ptr(r)
    \/ \E r \in Receivers : pair_update_elements(r)

SpecPair == Init /\ [][NextPair]_vars

----------------------------------------------------------------------------
(* webutils: a SurfaceStreamsSession and a RemoteTrackingSession, each     *)
(* talking to its server.  The server's answer is any response.            *)

\* The call has left outcome out on the session named of.
WebCall(of, call, out) ==
    /\ web' = [web EXCEPT
                  ![of] = out.session,
                  !.linked[of] = IF out.ret = "True" THEN call = "connect" ELSE @,
                  !.last = [of |-> of, call |-> call, was_linked |-> web.linked[of],
                            ret |-> out.ret, error |-> out.error, sent |-> out.sent]]
    /\ UNCHANGED <<receiver_vars, sid_calls, tracking_vars, unit_vars, trace, pair>>

surface_streams_connect ==
    \E r \in PostResponses :
        WebCall("surface_streams", "connect",
                SurfaceStreamsSession_connect(web.surface_streams, r))

surface_streams_disconnect ==
    \E r \in DeleteResponses :
        WebCall("surface_streams", "disconnect", Session_disconnect(web.surface_streams, r))

remote_tracking_connect ==
    \E r \in PostResponses :
        WebCall("remote_tracking", "connect",
                RemoteTrackingSession_connect(web.remote_tracking, r))

remote_tracking_disconnect ==
    \E r \in DeleteResponses :
        WebCall("remote_tracking", "disconnect", Session_disconnect(web.remote_tracking, r))

NextWeb ==
    \/ surface_streams_connect
    \/ surface_streams_disconnect
    \/ remote_tracking_connect
    \/ remote_tracking_disconnect

SpecWeb == Init /\ [][NextWeb]_vars

----------------------------------------------------------------------------
(* A TuioSender whose messages reach the receiver's server.                *)

MaxSends == 2         \* send_pattern calls whose messages are delivered

\* The patterns the sender holds: session ids of its own process; two keys;
\* one pattern with empty bounds and one with an empty symbol.
SenderPatterns ==
    {[s_id |-> 0, u_id |-> 0, bnd |-> TuioBounds(1, 2, 3, 4, 5), sym |-> TuioSymbol("a", 6, 7),
      data |-> <<>>],
     [s_id |-> 0, u_id |-> 0, bnd |-> TuioBounds(5, 4, 3, 2, 1), sym |-> TuioSymbol("b", 7, 6),
      data |-> <<>>],
     [s_id |-> 1, u_id |-> 0, bnd |-> TuioBounds(1, 2, 3, 4, 5), sym |-> TuioSymbol("a", 6, 7),
      data |-> <<>>],
     [s_id |-> 0, u_id |-> 0, bnd |-> TuioBounds(1, 2, 3, 0, 5), sym |-> TuioSymbol("a", 6, 7),
      data |-> <<>>],
     [s_id |-> 1, u_id |-> 0, bnd |-> TuioBounds(5, 4, 3, 2, 1), sym |-> TuioSymbol(None, -1, -1),
      data |-> <<>>]}

\* TuioSender.send_pattern, the two messages handled by the server on arrival.
send_pattern ==
    /\ server = "serving" /\ pc = "idle"
    /\ received < 2 * MaxSends /\ Len(sent) < MaxSends
    /\ \E p \in SenderPatterns :
         /\ sent' = Append(sent, p)
         /\ IF TuioImagePattern_is_valid(p)
            THEN LET b  == extract_bnd_args(p)
                     y  == extract_sym_args(p)
                     rb == bnd_handler(bnd_queue, b[1], b[2], b[3], b[4], b[5], b[6], b[7])
                     ry == sym_handler(sym_queue, y[1], y[2], y[3], y[4], y[5], y[6])
                 IN  /\ bnd_queue' = rb.queue
                     /\ sym_queue' = ry.queue
                     /\ received' = received + 2
                     /\ handler_errors' = handler_errors + (IF rb.raised THEN 1 ELSE 0)
                                                         + (IF ry.raised THEN 1 ELSE 0)
            ELSE UNCHANGED <<bnd_queue, sym_queue, received, handler_errors>>
    /\ UNCHANGED <<ptr_queue, dat_queue, maps, element_timeout, server, srv_sid, main_sid,
                   clock, pc, time_now, update_log, bad_syms, processed, poll, pat_hist,
                   side_vars>>

NextRoundTrip ==
    \/ Start
    \/ Tick
    \/ send_pattern
    \/ update_elements
    \/ update_elements_return

SpecRoundTrip == Init /\ [][NextRoundTrip]_vars

----------------------------------------------------------------------------
(* TuioSessionId called directly, in one process.                          *)

MaxCalls == 4         \* calls of TuioSessionId.get and .add_existing

BlacklistIds == 0..3  \* the ids given to add_existing

\* TuioSessionId.get(keep_current): the call is recorded with the blacklist
\* it found and the id it returned.
call_get ==
    /\ Len(sid_calls) < MaxCalls
    /\ \E keep_current \in BOOLEAN :
         LET r == TuioSessionId_get(main_sid, keep_current) IN
         /\ main_sid' = r.st
         /\ sid_calls' = Append(sid_calls, [op |-> "get", keep_current |-> keep_current,
                                            existing |-> main_sid.existing, s_id |-> r.s_id])
    /\ UNCHANGED <<queues, maps, element_timeout, server, srv_sid, clock, pc, time_now,
                   update_log, received, bad_syms, handler_errors, processed, poll, pat_hist,
                   sent, tracking_vars, unit_vars, more_vars>>

\* TuioSessionId.add_existing(s_id).
call_add_existing ==
    /\ Len(sid_calls) < MaxCalls
    /\ \E s_id \in BlacklistIds :
         /\ main_sid' = TuioSessionId_add_existing(main_sid, s_id)
         /\ sid_calls' = Append(sid_calls, [op |-> "add_existing", keep_current |-> FALSE,
                                            existing |-> main_sid.existing, s_id |-> s_id])
    /\ UNCHANGED <<queues, maps, element_timeout, server, srv_sid, clock, pc, time_now,
                   update_log, received, bad_syms, handler_errors, processed, poll, pat_hist,
                   sent, tracking_vars, unit_vars, more_vars>>

NextSessionId ==
    \/ call_get
    \/ call_add_existing

SpecSessionId == Init /\ [][NextSessionId]_vars

----------------------------------------------------------------------------
(* PatternTracking: patterns are loaded, then frames are tracked, by       *)
(* track or by track_concurrent with its worker threads.                   *)

MaxWorkers == 4       \* greatest num_threads given to track_concurrent

Scales == {1, 2}      \* matching_scale

\* The path lists given to load_patterns: up to three paths, none twice.
Batches ==
    {q \in UNION {[1..n -> Paths] : n \in 1..3} : \A i, j \in DOMAIN q : i # j => q[i] # q[j]}

\* PatternTracking.load_patterns(paths, matching_scale=scale) on an empty store.
call_load_patterns ==
    /\ tracking_round.pc = "idle"
    /\ tracker_patterns = <<>>
    /\ \E paths \in Batches, matching_scale \in Scales :
         LET T == load_patterns([patterns |-> tracker_patterns, reports |-> <<>>],
                                paths, <<>>, matching_scale)
         IN  /\ tracker_patterns' = T.patterns
             /\ load_log' = [paths |-> paths, matching_scale |-> matching_scale,
                             reports |-> T.reports]
    /\ UNCHANGED <<queues, maps, element_timeout, server, srv_sid, main_sid, clock, pc,
                   time_now, update_log, received, bad_syms, handler_errors, processed, poll,
                   pat_hist, sent, sid_calls, tracking_round, unit_vars, more_vars>>

\* PatternTracking.clear_patterns.
call_clear_patterns ==
    /\ tracking_round.pc = "idle"
    /\ tracker_patterns # <<>>
    /\ tracker_patterns' = PatternTracking_clear_patterns(tracker_patterns)
    /\ load_log' = NoLoad
    /\ UNCHANGED <<queues, maps, element_timeout, server, srv_sid, main_sid, clock, pc,
                   time_now, update_log, received, bad_syms, handler_errors, processed, poll,
                   pat_hist, sent, sid_calls, tracking_round, unit_vars, more_vars>>

\* PatternTracking.track(image), from call to return or exception.
call_track ==
    /\ tracking_round.pc = "idle"
    /\ tracker_patterns # <<>>
    /\ \E image \in Frames :
         LET r == track(tracker_patterns, image) IN
         tracking_round' = [NoRound EXCEPT !.pc = "returned", !.call = "track",
                                           !.image = image, !.res = r.res, !.raised = r.raised,
                                           !.frame_pattern = SiftPattern_set_image(@, image)]
    /\ UNCHANGED <<queues, maps, element_timeout, server, srv_sid, main_sid, clock, pc,
                   time_now, update_log, received, bad_syms, handler_errors, processed, poll,
                   pat_hist, sent, sid_calls, tracker_patterns, load_log, unit_vars, more_vars>>

\* track_concurrent(image, num_threads) up to its join loop: the patterns are
\* dealt out and the threads started.
track_concurrent_start ==
    /\ tracking_round.pc = "idle"
    /\ tracker_patterns # <<>>
    /\ \E image \in Frames, num_threads \in 1..MaxWorkers :
         LET lists == [t \in 1..num_threads |->
                          ThreadPatterns(tracker_patterns, t - 1, num_threads)]
         IN  tracking_round' = [NoRound EXCEPT !.pc = "joining", !.call = "track_concurrent",
                                               !.image = image, !.num_threads = num_threads,
                                               !.lists = lists,
                                               !.threads = StartThreads(lists, image)]
    /\ UNCHANGED <<queues, maps, element_timeout, server, srv_sid, main_sid, clock, pc,
                   time_now, update_log, received, bad_syms, handler_errors, processed, poll,
                   pat_hist, sent, sid_calls, tracker_patterns, load_log, unit_vars, more_vars>>

\* A started thread runs.  It shares nothing it writes with the other
\* threads or with the caller, so its run is one step.
thread_run ==
    /\ tracking_round.pc = "joining"
    /\ \E t \in 1..Len(tracking_round.threads) :
         /\ tracking_round.threads[t].status = "started"
         /\ tracking_round' = [tracking_round EXCEPT
                                  !.threads[t] = PatternTrackingThread_run(@)]
    /\ UNCHANGED <<queues, maps, element_timeout, server, srv_sid, main_sid, clock, pc,
                   time_now, update_log, received, bad_syms, handler_errors, processed, poll,
                   pat_hist, sent, sid_calls, tracker_patterns, load_log, unit_vars, more_vars>>

\* One pass of the join loop: thread.join() returns when the thread has
\* ended, and its results are added to res.
track_concurrent_join ==
    /\ tracking_round.pc = "joining"
    /\ tracking_round.joined < Len(tracking_round.threads)
    /\ LET thread == tracking_round.threads[tracking_round.joined + 1] IN
       /\ thread.status # "started"
       /\ tracking_round' = [tracking_round EXCEPT !.joined = @ + 1,
                                                   !.res = @ \o thread.results]
    /\ UNCHANGED <<queues, maps, element_timeout, server, srv_sid, main_sid, clock, pc,
                   time_now, update_log, received, bad_syms, handler_errors, processed, poll,
                   pat_hist, sent, sid_calls, tracker_patterns, load_log, unit_vars, more_vars>>

\* return res.
track_concurrent_return ==
    /\ tracking_round.pc = "joining"
    /\ tracking_round.joined = Len(tracking_round.threads)
    /\ tracking_round' = [tracking_round EXCEPT !.pc = "returned"]
    /\ UNCHANGED <<queues, maps, element_timeout, server, srv_sid, main_sid, clock, pc,
                   time_now, update_log, received, bad_syms, handler_errors, processed, poll,
                   pat_hist, sent, sid_calls, tracker_patterns, load_log, unit_vars, more_vars>>

\* The caller has the result; the next round can begin.
round_end ==
    /\ tracking_round.pc = "returned"
    /\ tracking_round' = NoRound
    /\ UNCHANGED <<queues, maps, element_timeout, server, srv_sid, main_sid, clock, pc,
                   time_now, update_log, received, bad_syms, handler_errors, processed, poll,
                   pat_hist, sent, sid_calls, tracker_patterns, load_log, unit_vars, more_vars>>

NextTracking ==
    \/ call_load_patterns
    \/ call_clear_patterns
    \/ call_track
    \/ track_concurrent_start
    \/ thread_run
    \/ track_concurrent_join
    \/ track_concurrent_return
    \/ round_end

SpecTracking == Init /\ [][NextTracking]_vars

----------------------------------------------------------------------------
(* The match engine called directly: FlannMatcher.knn_match and            *)
(* find_homography on one pattern and one frame, and PatternTracking.track *)
(* with one pattern in the store.                                          *)

\* The image files a pattern is loaded from: the tracker's, and a line.
MatcherPaths == Paths \cup {<<"res", "l">>}

\* The patterns as load_pattern leaves them in the store.
MatcherStores ==
    {load_pattern([patterns |-> <<>>, reports |-> <<>>], path, None, scale).patterns :
        path \in MatcherPaths, scale \in Scales}

\* The frames: None, and one for each outcome of OpenCV, the same for every
\* pattern file and detector.
MatcherTables ==
    {[f \in ReadableFiles \cup LineFiles |-> [c \in FrameSifts |-> o]] :
        o \in {CvFew, CvOk, CvNoM, CvFlat, CvSkew}}

MatcherImages ==
    {NoFrame} \cup {[empty |-> FALSE, file |-> "frame", h |-> 2, w |-> 4, cv |-> t] :
                        t \in MatcherTables}

\* The frame pattern of PatternTracking and that of PatternTrackingThread.
MatcherFrames ==
    {SiftPattern_set_image(SiftPattern("THE-FRAME", cv_sift), image) :
        cv_sift \in {None, SIFT_thread}, image \in MatcherImages}

\* The values of good given to find_homography: None, an empty list, a list
\* of MIN_MATCH_COUNT matches.
GoodArgs == {NoGood, Good(0), Good(MIN_MATCH_COUNT)}

\* FlannMatcher().knn_match(pattern, frame).
call_knn_match ==
    /\ \E store \in MatcherStores, frame \in MatcherFrames :
         LET r == FlannMatcher_knn_match(store[1], frame) IN
         matcher_call' = [NoCall EXCEPT !.op = "knn_match", !.pattern = store[1],
                                        !.frame = frame, !.raised = r.raised,
                                        !.error = r.error, !.ret_good = r.good]
    /\ UNCHANGED <<receiver_vars, sid_calls, tracking_vars, sender_call, element, proc, more_vars>>

\* FlannMatcher().find_homography(pattern, frame, good).
call_find_homography ==
    /\ \E store \in MatcherStores, frame \in MatcherFrames, good \in GoodArgs :
         LET r == FlannMatcher_find_homography(store[1], frame, good) IN
         matcher_call' = [NoCall EXCEPT !.op = "find_homography", !.pattern = store[1],
                                        !.frame = frame, !.good = good, !.raised = r.raised,
                                        !.error = r.error, !.ret_M = r.M]
    /\ UNCHANGED <<receiver_vars, sid_calls, tracking_vars, sender_call, element, proc, more_vars>>

\* PatternTracking.track(image) with one pattern loaded.
call_track_one ==
    /\ \E store \in MatcherStores, image \in MatcherImages :
         LET r == track(store, image) IN
         matcher_call' = [NoCall EXCEPT !.op = "track", !.pattern = store[1],
                                        !.frame = SiftPattern_set_image(
                                                      SiftPattern("THE-FRAME", None), image),
                                        !.raised = r.raised, !.error = r.error,
                                        !.res = r.res]
    /\ UNCHANGED <<receiver_vars, sid_calls, tracking_vars, sender_call, element, proc, more_vars>>

NextMatcher ==
    \/ call_knn_match
    \/ call_find_homography
    \/ call_track_one

SpecMatcher == Init /\ [][NextMatcher]_vars

----------------------------------------------------------------------------
(* A TuioSender on its own: what send_patterns and send_pointers put on    *)
(* the wire.                                                               *)

MaxBatch == 2         \* elements in one send_patterns / send_pointers call

\* The pointers the sender holds: with no, one and two ExtensionData; one
\* of each whose session id has been set to -1.
SenderPointers ==
    {[s_id |-> s, u_id |-> 1, tu_id |-> 0, c_id |-> 2, x_pos |-> 3, y_pos |-> 4, angle |-> 0,
      shear |-> 0, radius |-> 10, press |-> FALSE, data |-> d] :
        s \in {-1, 0},
        d \in {<<>>, <<TuioData("string", "v1")>>,
               <<TuioData("string", "v1"), TuioData("image", "v2")>>}}

ListsOf(S) == UNION {[1..n -> S] : n \in 0..MaxBatch}

\* TuioSender.send_patterns(patterns).
call_send_patterns ==
    /\ \E pattern_list \in ListsOf(SenderPatterns) :
         sender_call' = [op |-> "send_patterns", elements |-> pattern_list,
                         wire |-> TuioSender_send_patterns(<<>>, pattern_list)]
    /\ UNCHANGED <<receiver_vars, sid_calls, tracking_vars, matcher_call, element, proc, more_vars>>

\* TuioSender.send_pointers(pointers).
call_send_pointers ==
    /\ \E pointer_list \in ListsOf(SenderPointers) :
         sender_call' = [op |-> "send_pointers", elements |-> pointer_list,
                         wire |-> TuioSender_send_pointers(<<>>, pointer_list)]
    /\ UNCHANGED <<receiver_vars, sid_calls, tracking_vars, matcher_call, element, proc, more_vars>>

NextSender ==
    \/ call_send_patterns
    \/ call_send_pointers

SpecSender == Init /\ [][NextSender]_vars

----------------------------------------------------------------------------
(* One TuioImagePattern held by the application: ExtensionData is appended *)
(* with remove_similar=True, and the setters of its bounds are called.     *)

MaxOps == 3           \* append_data and append_data_list calls

Sizes == {1, 2}       \* the values given to set_width and set_height

\* The lists given to append_data_list: up to MaxBatch entries.
DataLists == UNION {[1..n -> DataValues] : n \in 0..MaxBatch}

\* The ExtensionData inserted last for each mime type, after data_list.
RECURSIVE Latest(_, _)
Latest(latest, data_list) ==
    IF data_list = <<>> THEN latest
    ELSE Latest([latest EXCEPT ![Head(data_list).mime_type] = Head(data_list)],
                Tail(data_list))

\* element.append_data(data).
call_append_data ==
    /\ element.ops < MaxOps
    /\ \E data \in DataValues :
         element' = [element EXCEPT !.pat.data = append_data(@, data, TRUE),
                                    !.latest = Latest(@, <<data>>),
                                    !.ops = @ + 1,
                                    !.call = NoSetterCall]
    /\ UNCHANGED <<receiver_vars, sid_calls, tracking_vars, matcher_call, sender_call, proc, more_vars>>

\* element.append_data_list(data).
call_append_data_list ==
    /\ element.ops < MaxOps
    /\ \E data \in DataLists :
         element' = [element EXCEPT !.pat.data = append_data_list(@, data, TRUE),
                                    !.latest = Latest(@, data),
                                    !.ops = @ + 1,
                                    !.call = NoSetterCall]
    /\ UNCHANGED <<receiver_vars, sid_calls, tracking_vars, matcher_call, sender_call, proc, more_vars>>

\* pattern.set_width(width).
call_set_width ==
    /\ \E width \in Sizes :
         element' = [element EXCEPT !.pat = TuioImagePattern_set_width(@, width),
                                    !.call = [op |-> "set_width", arg |-> width,
                                              before |-> element.pat.bnd]]
    /\ UNCHANGED <<receiver_vars, sid_calls, tracking_vars, matcher_call, sender_call, proc, more_vars>>

\* pattern.set_height(height).
call_set_height ==
    /\ \E height \in Sizes :
         element' = [element EXCEPT !.pat = TuioImagePattern_set_height(@, height),
                                    !.call = [op |-> "set_height", arg |-> height,
                                              before |-> element.pat.bnd]]
    /\ UNCHANGED <<receiver_vars, sid_calls, tracking_vars, matcher_call, sender_call, proc, more_vars>>

NextElement ==
    \/ call_append_data
    \/ call_append_data_list
    \/ call_set_width
    \/ call_set_height

SpecElement == Init /\ [][NextElement]_vars

----------------------------------------------------------------------------
(* processes/__init__.py: a ProcessWrapper and the subprocess it starts.   *)
(* The subprocess is [pid, state, returncode], state being "alive" or      *)
(* "exited"; raised tells whether the last call left with an exception.    *)

MaxStarts == 3        \* subprocesses started by one ProcessWrapper

\* The argument lists given to _set_process_args; Popen finds no program
\* "missing".
ArgLists == {<<>>, <<"gst-launch-1.0">>, <<"gst-launch-1.0", "-v">>, <<"missing">>}

ExitCodes == {0, 1}   \* the exit codes of a subprocess that ends on its own

SIGTERM == 15

ProcessWrapper_is_running(self) == self._running

\* ProcessWrapper._set_process_args(args).
call_set_process_args ==
    /\ \E args \in ArgLists :
         proc' = [proc EXCEPT !._process_args = IF ~proc._running THEN args ELSE @,
                              !.raised = FALSE]
    /\ UNCHANGED <<receiver_vars, sid_calls, tracking_vars, matcher_call, sender_call, element, more_vars>>

\* ProcessWrapper.start(): subprocess.Popen raises for a program that does
\* not exist.
call_start ==
    /\ proc._subprocess.pid < MaxStarts
    /\ proc' = IF proc._running \/ Len(proc._process_args) = 0
               THEN [proc EXCEPT !.raised = FALSE]
               ELSE IF proc._process_args[1] = "missing"
               THEN [proc EXCEPT !.raised = TRUE]
               ELSE [proc EXCEPT !._subprocess = [pid |-> proc._subprocess.pid + 1,
                                                  state |-> "alive", returncode |-> 0],
                                 !._running = TRUE,
                                 !.raised = FALSE]
    /\ UNCHANGED <<receiver_vars, sid_calls, tracking_vars, matcher_call, sender_call, element, more_vars>>

\* The subprocess ends on its own.
subprocess_exit ==
    /\ proc._subprocess.state = "alive"
    /\ \E code \in ExitCodes :
         proc' = [proc EXCEPT !._subprocess.state = "exited",
                              !._subprocess.returncode = code]
    /\ UNCHANGED <<receiver_vars, sid_calls, tracking_vars, matcher_call, sender_call, element, more_vars>>

\* ProcessWrapper.stop(): terminate() ends a subprocess that is alive, and
\* wait() returns the exit code.
call_stop ==
    /\ proc' = IF ~proc._running THEN [proc EXCEPT !.raised = FALSE]
               ELSE LET code == IF proc._subprocess.state = "alive" THEN -SIGTERM
                                ELSE proc._subprocess.returncode
                    IN  [proc EXCEPT !._subprocess.state = "exited",
                                     !._subprocess.returncode = code,
                                     !.return_code = <<code>>,
                                     !._running = FALSE,
                                     !.raised = FALSE]
    /\ UNCHANGED <<receiver_vars, sid_calls, tracking_vars, matcher_call, sender_call, element, more_vars>>

\* ProcessWrapper.wait(): returns when the subprocess has ended; on None it
\* raises AttributeError.
call_wait ==
    /\ proc._subprocess.state # "alive"
    /\ proc' = [proc EXCEPT !.raised = (proc._subprocess.state = "none")]
    /\ UNCHANGED <<receiver_vars, sid_calls, tracking_vars, matcher_call, sender_call, element, more_vars>>

NextProcess ==
    \/ call_set_process_args
    \/ call_start
    \/ subprocess_exit
    \/ call_stop
    \/ call_wait

SpecProcess == Init /\ [][NextProcess]_vars

----------------------------------------------------------------------------
(* Properties of the session registry.  Those about one poll are stated of  *)
(* the state in which update_elements returns.                             *)

Returning == pc = "return"

PtrKeysOf(queue) == {TuioPointer_key(queue[i].ptr) : i \in 1..Len(queue)}

DatKeysOf(queue) == {DatKey(queue[i]) : i \in 1..Len(queue)}

PatKeysOf(queue) == {PatKey(queue[i]) : i \in 1..Len(queue)}

\* The greatest of a non-empty set of indices.
Last(indices) == CHOOSE i \in indices : \A j \in indices : j <= i

\* C1: with element_timeout T > 0, a poll at time now keeps every pattern and
\* pointer whose last-update time t0 has now - t0 <= T, and removes, from the
\* live map and from the update-time map, every one with now - t0 > T for
\* whose key the poll processed no message.
C1_EvictionByTimeout ==
    (Returning /\ element_timeout > 0) =>
        /\ \A k \in DOMAIN poll.start.patterns :
             LET t0 == poll.start.pattern_update_times[k] IN
             /\ time_now - t0 <= element_timeout => k \in DOMAIN patterns
             /\ (/\ time_now - t0 > element_timeout
                 /\ k \notin PatKeysOf(poll.queues.bnd) \cup PatKeysOf(poll.queues.sym))
                  => k \notin DOMAIN patterns /\ k \notin DOMAIN pattern_update_times
        /\ \A k \in DOMAIN poll.start.pointers :
             LET t0 == poll.start.pointer_update_times[k] IN
             /\ time_now - t0 <= element_timeout => k \in DOMAIN pointers
             /\ (/\ time_now - t0 > element_timeout
                 /\ k \notin PtrKeysOf(poll.queues.ptr) \cup DatKeysOf(poll.queues.dat))
                  => k \notin DOMAIN pointers /\ k \notin DOMAIN pointer_update_times

\* C1 witness: a poll has kept a pattern at the very limit of the timeout and
\* has evicted a pointer that was past it.
C1_Witness ==
    /\ Returning /\ element_timeout > 0
    /\ \E k \in DOMAIN poll.start.patterns :
         /\ time_now - poll.start.pattern_update_times[k] = element_timeout
         /\ k \notin PatKeysOf(poll.queues.bnd) \cup PatKeysOf(poll.queues.sym)
         /\ k \in DOMAIN patterns
    /\ \E k \in DOMAIN poll.start.pointers :
         /\ time_now - poll.start.pointer_update_times[k] > element_timeout
         /\ k \notin DOMAIN pointers

PatternStamped(k) ==
    k \in DOMAIN pattern_update_times /\ pattern_update_times[k] = time_now

PointerStamped(k) ==
    k \in DOMAIN pointer_update_times /\ pointer_update_times[k] = time_now

\* C2: every message a poll accepts sets its entity's last-update time to the
\* timestamp of the poll: every bnd, every sym (also one that repeats the
\* stored symbol), every ptr, and every dat whose pointer exists; so a
\* pattern that a poll drained a sym message for is in the map after it.
C2_EveryMessageStamps ==
    Returning =>
        /\ \A k \in PatKeysOf(poll.queues.bnd) : PatternStamped(k)
        /\ \A k \in PatKeysOf(poll.queues.sym) : PatternStamped(k)
        /\ \A k \in PtrKeysOf(poll.queues.ptr) : PointerStamped(k)
        /\ \A k \in DatKeysOf(poll.queues.dat) :
             k \in DOMAIN poll.after.ptr.pointers => PointerStamped(k)
        /\ \A k \in PatKeysOf(poll.queues.sym) : k \in DOMAIN patterns

\* C3: a ptr message for a key that has a Pointer replaces it, and the new
\* Pointer holds exactly the ExtensionData the previous one held.
C3_PtrKeepsData ==
    Returning =>
        \A k \in DOMAIN poll.after.sym.pointers \cap PtrKeysOf(poll.queues.ptr) :
            LET q    == poll.queues.ptr
                last == q[Last({i \in 1..Len(q) : TuioPointer_key(q[i].ptr) = k})].ptr
            IN  poll.after.ptr.pointers[k] =
                    [last EXCEPT !.data = poll.after.sym.pointers[k].data]

\* C3 witness: a pointer that held data got a ptr message with another pose.
C3_Witness ==
    /\ Returning
    /\ \E k \in DOMAIN poll.after.sym.pointers \cap PtrKeysOf(poll.queues.ptr) :
         /\ poll.after.sym.pointers[k].data # <<>>
         /\ poll.after.ptr.pointers[k].x_pos # poll.after.sym.pointers[k].x_pos
         /\ poll.after.ptr.pointers[k].data # <<>>

\* C4: a dat message whose key has no Pointer when the dat queue is drained is
\* dropped: it creates no Pointer, leaves the pointer map and the pointer
\* update times as they were, and its key is not logged under "dat".
C4_DatForUnknownDropped ==
    Returning =>
        LET before  == poll.after.ptr
            after   == poll.after.dat
            unknown == DatKeysOf(poll.queues.dat) \ DOMAIN before.pointers
        IN  /\ DOMAIN after.pointers = DOMAIN before.pointers
            /\ DOMAIN after.pointer_update_times = DOMAIN before.pointer_update_times
            /\ \A k \in unknown : ~InList(k, update_log.dat)
            /\ unknown = DatKeysOf(poll.queues.dat) =>
                 /\ after.pointers = before.pointers
                 /\ after.pointer_update_times = before.pointer_update_times
                 /\ update_log.dat = <<>>

\* C4 witness: a poll drained a dat message for a key without Pointer while
\* another Pointer was in the map.
C4_Witness ==
    /\ Returning
    /\ DatKeysOf(poll.queues.dat) \ DOMAIN poll.after.ptr.pointers # {}
    /\ poll.after.ptr.pointers # EmptyDict

\* C5: a dat message and a ptr message for its key that are both queued when
\* a poll starts leave the data attached to the pointer: ptr messages are
\* applied before dat messages, and the sweep after both.
C5_DatSeesPtrOfSamePoll ==
    Returning =>
        \A i \in 1..Len(poll.queues.dat) :
            LET q    == poll.queues.dat
                d    == q[i]
                k    == DatKey(d)
                last == q[Last({n \in 1..Len(q) :
                                  DatKey(q[n]) = k /\ TuioData_eq(q[n].dat, d.dat)})].dat
            IN  k \in PtrKeysOf(poll.queues.ptr) =>
                    /\ k \in DOMAIN pointers
                    /\ \E j \in 1..Len(pointers[k].data) : pointers[k].data[j] = last

\* C5 witness: the pointer did not exist before the poll that drained both its
\* ptr message and a dat message for it.
C5_Witness ==
    /\ Returning
    /\ \E k \in DatKeysOf(poll.queues.dat) \cap PtrKeysOf(poll.queues.ptr) :
         /\ k \notin DOMAIN poll.start.pointers
         /\ k \in DOMAIN pointers
         /\ pointers[k].data # <<>>

GrowsByOne(queue, queue_after) ==
    Len(queue_after) = Len(queue) + 1 /\ SubSeq(queue_after, 1, Len(queue)) = queue

\* C6: the receive path only enqueues: a delivery appends at most one message
\* to one queue and touches no map, and the maps change in update_elements only.
C6_ReceivePathOnlyEnqueues ==
    [][ /\ ~(pc = "idle" /\ pc' = "return") => UNCHANGED maps
        /\ received' # received =>
             \/ UNCHANGED queues
             \/ GrowsByOne(bnd_queue, bnd_queue') /\ UNCHANGED <<sym_queue, ptr_queue, dat_queue>>
             \/ GrowsByOne(sym_queue, sym_queue') /\ UNCHANGED <<bnd_queue, ptr_queue, dat_queue>>
             \/ GrowsByOne(ptr_queue, ptr_queue') /\ UNCHANGED <<bnd_queue, sym_queue, dat_queue>>
             \/ GrowsByOne(dat_queue, dat_queue') /\ UNCHANGED <<bnd_queue, sym_queue, ptr_queue>>
      ]_vars

\* C6 witness: between two polls, a bnd message for a pattern of the map waits
\* on its queue with bounds the pattern does not have.
C6_Witness ==
    /\ pc = "idle"
    /\ \E i \in 1..Len(bnd_queue) :
         /\ PatKey(bnd_queue[i]) \in DOMAIN patterns
         /\ patterns[PatKey(bnd_queue[i])].bnd # bnd_queue[i].bnd

\* C7: the log a poll returns lists, per kind, the key of every message of
\* that kind it drained: every bnd, every sym (also when the symbol did not
\* change), every ptr, and every dat applied to an existing pointer.
C7_LogListsEveryMessage ==
    Returning =>
        /\ \A k \in PatKeysOf(poll.queues.bnd) : InList(k, update_log.bnd)
        /\ \A k \in PatKeysOf(poll.queues.sym) : InList(k, update_log.sym)
        /\ \A k \in PtrKeysOf(poll.queues.ptr) : InList(k, update_log.ptr)
        /\ \A k \in DatKeysOf(poll.queues.dat) :
             k \in DOMAIN poll.after.ptr.pointers => InList(k, update_log.dat)

HasName(sym) == sym.uuid \in Names

\* C8: a sym message whose id-type is not "uuid" raises in the handler and is
\* not enqueued, so its value reaches no pattern; every other message
\* delivered, before or after it, is enqueued and then processed.
C8_BadSymRejected ==
    /\ handler_errors = bad_syms
    /\ \A i \in 1..Len(sym_queue) : ~HasName(sym_queue[i].sym)
    /\ \A k \in DOMAIN patterns : ~HasName(patterns[k].sym)
    /\ received = handler_errors + processed
                    + Len(bnd_queue) + Len(sym_queue) + Len(ptr_queue) + Len(dat_queue)

\* C8 witness: the handler has raised, and a pattern holds the symbol of a
\* well-formed sym message.
C8_Witness ==
    /\ handler_errors > 0
    /\ \E k \in DOMAIN patterns : patterns[k].sym.uuid \in UUIDs

C10_PtrStoredUnderWireKey ==
    Returning =>
        \A i \in 1..Len(poll.queues.ptr) :
            LET m == poll.queues.ptr[i]
                k == TuioPointer_calc_key(m.s_id, m.u_id, m.c_id)
            IN  /\ k \in DOMAIN poll.after.ptr.pointers
                /\ poll.after.ptr.pointers[k].s_id = m.s_id
                /\ poll.after.ptr.pointers[k].u_id = m.u_id
                /\ poll.after.ptr.pointers[k].c_id = m.c_id

SameMaps(R1, R2) ==
    /\ R1.patterns = R2.patterns /\ R1.pattern_update_times = R2.pattern_update_times
    /\ R1.pointers = R2.pointers /\ R1.pointer_update_times = R2.pointer_update_times

\* C12: the eviction sweep is idempotent: run again with the same timestamp on
\* the maps a sweep has left, it removes nothing and leaves the maps equal.
C12_SweepIdempotent ==
    Returning =>
        LET once  == _remove_expired_elements(poll.after.dat, time_now, element_timeout)
            twice == _remove_expired_elements(once, time_now, element_timeout)
        IN  /\ SameMaps(once, poll.after.expire)
            /\ SameMaps(twice, once)

\* C12 witness: the sweep of the poll has removed two patterns and has kept a
\* pointer.
C12_Witness ==
    /\ Returning
    /\ Cardinality(DOMAIN poll.after.dat.patterns \ DOMAIN patterns) >= 2
    /\ pointers # EmptyDict

\* C13: with element_timeout <= 0 no step removes a pattern or a pointer from
\* the live maps, however long ago its last update was.
C13_NoEvictionWhenDisabled ==
    [][element_timeout <= 0 =>
          /\ DOMAIN patterns \subseteq DOMAIN patterns'
          /\ DOMAIN pointers \subseteq DOMAIN pointers']_vars

\* C13 witness: with a negative timeout, a poll returns with a pattern and a
\* pointer in the maps whose last update is two ticks old.
C13_Witness ==
    /\ Returning /\ element_timeout < 0
    /\ \E k \in DOMAIN patterns : time_now - pattern_update_times[k] >= 2
    /\ \E k \in DOMAIN pointers : time_now - pointer_update_times[k] >= 2

----------------------------------------------------------------------------
(* Properties of sender and receiver together.                             *)

SentKey(p) == TuioImagePattern_calc_key(p.s_id, p.u_id)

\* The valid patterns sent since the last poll that no later one of the same
\* key followed.
LastSent ==
    {i \in 1..Len(sent) :
        /\ TuioImagePattern_is_valid(sent[i])
        /\ \A j \in (i + 1)..Len(sent) :
             TuioImagePattern_is_valid(sent[j]) => SentKey(sent[j]) # SentKey(sent[i])}

\* C11: round trip: the bnd and sym argument lists the sender makes of a valid
\* pattern p, handled by bnd_handler and sym_handler and drained by one poll,
\* leave at calc_key(p.s_id, p.u_id) a pattern whose Bounds and Symbol equal
\* those of p.
C11_RoundTrip ==
    Returning =>
        \A i \in LastSent :
            LET p == sent[i]
                k == SentKey(p)
            IN  /\ k \in DOMAIN patterns
                /\ patterns[k].bnd = p.bnd
                /\ patterns[k].sym = p.sym

\* C11 witness: the poll has replaced the bounds and the symbol a pattern of
\* the map had by those of the pattern sent.
C11_Witness ==
    /\ Returning
    /\ \E i \in LastSent :
         LET p == sent[i]
             k == SentKey(p)
         IN  /\ k \in DOMAIN poll.start.patterns
             /\ poll.start.patterns[k].bnd # p.bnd
             /\ poll.start.patterns[k].sym # p.sym
             /\ patterns[k].bnd = p.bnd /\ patterns[k].sym = p.sym
             /\ p.bnd.width # p.bnd.height

----------------------------------------------------------------------------
(* Properties of TuioSessionId.                                            *)

\* The calls get(keep_current=False) of the history, in their order.
FreshCalls == {i \in 1..Len(sid_calls) : sid_calls[i].op = "get" /\ ~sid_calls[i].keep_current}

\* C14: get(), with either value of keep_current, never returns an id that is
\* in the blacklist at the moment of the call.
C14_GetNeverReturnsExisting ==
    \A i \in 1..Len(sid_calls) :
        sid_calls[i].op = "get" => ~InList(sid_calls[i].s_id, sid_calls[i].existing)

----------------------------------------------------------------------------
(* Properties of the pattern store and of tracking rounds.                 *)

Returned(call) == tracking_round.pc = "returned" /\ tracking_round.call = call

ResultSet(res) == {res[i] : i \in 1..Len(res)}

\* The frame's features as the call computes them.
FramePattern(call, image) ==
    SiftPattern_set_image(
        SiftPattern("THE-FRAME", IF call = "track" THEN None ELSE SIFT_thread), image)

\* C16: for every num_threads >= 1, track_concurrent returns results for the
\* same pattern ids, with the same Bounds, as track returns for the same
\* frame and pattern store.
C16_ConcurrentEqualsSequential ==
    Returned("track_concurrent") =>
        LET seq == track(tracker_patterns, tracking_round.image) IN
        /\ ~seq.raised
        /\ ResultSet(tracking_round.res) = ResultSet(seq.res)

ListIds(l) == {l[k].id : k \in 1..Len(l)}

\* C17: track_concurrent deals the patterns of the store out round-robin:
\* pattern i goes to list i mod num_threads and to no other, the lengths of
\* the lists differ by at most one, and one thread is started for each
\* non-empty list and none for an empty one: min(num_threads, number of
\* patterns) threads in all.
C17_RoundRobinPartition ==
    tracking_round.call = "track_concurrent" =>
        LET N     == tracking_round.num_threads
            lists == tracking_round.lists
            used  == {t \in 1..N : Len(lists[t]) > 0}
        IN  /\ Len(lists) = N
            /\ \A i \in 1..Len(tracker_patterns) : \A t \in 1..N :
                 Cardinality({k \in 1..Len(lists[t]) : lists[t][k] = tracker_patterns[i]})
                     = (IF t = ((i - 1) % N) + 1 THEN 1 ELSE 0)
            /\ \A t \in 1..N : ListIds(lists[t]) \subseteq StoreIds(tracker_patterns)
            /\ \A t, u \in 1..N : Len(lists[t]) - Len(lists[u]) <= 1
            /\ Len(tracking_round.threads) = Min(N, Len(tracker_patterns))
            /\ Len(tracking_round.threads) = Cardinality(used)
            /\ \A n \in 1..Len(tracking_round.threads) :
                 /\ tracking_round.threads[n].patterns # <<>>
                 /\ \E t \in used : tracking_round.threads[n].patterns = lists[t]
            /\ \A t \in used : \E n \in 1..Len(tracking_round.threads) :
                 tracking_round.threads[n].patterns = lists[t]

\* C17 witness: three patterns dealt out to two threads, and the round has
\* returned.
C17_Witness ==
    /\ Returned("track_concurrent")
    /\ Len(tracker_patterns) = 3
    /\ tracking_round.num_threads = 2
    /\ Len(tracking_round.lists[1]) = 2 /\ Len(tracking_round.lists[2]) = 1

RECURSIVE AllResults(_)
AllResults(threads) ==
    IF threads = <<>> THEN <<>> ELSE Head(threads).results \o AllResults(Tail(threads))

\* C18: track_concurrent returns only when every thread it started has
\* ended, what it returns is the concatenation of the threads' result lists,
\* and no result comes from a thread that did not pass through all the
\* patterns of its list.
C18_ReturnsCompleteResultsOnly ==
    Returned("track_concurrent") =>
        /\ \A t \in 1..Len(tracking_round.threads) :
             tracking_round.threads[t].status # "started"
        /\ tracking_round.res = AllResults(tracking_round.threads)
        /\ \A t \in 1..Len(tracking_round.threads) :
             LET thread == tracking_round.threads[t] IN
             thread.results # <<>> => thread.passed = Len(thread.patterns)

\* C19: in a round on a frame, by track or by track_concurrent, a pattern
\* whose matching fails has no result and no other effect: the call does not
\* raise, and every other pattern of the store that matches the frame has
\* its result returned.
C19_FailureSkipsOnePattern ==
    (tracking_round.pc = "returned" /\ ~tracking_round.image.empty) =>
        /\ ~tracking_round.raised
        /\ \A i \in 1..Len(tracker_patterns) :
             LET r == MatchPattern(tracker_patterns[i],
                                   FramePattern(tracking_round.call, tracking_round.image),
                                   tracking_round.image.h)
             IN  ~r.raised => ResultSet(r.results) \subseteq ResultSet(tracking_round.res)

Unreadable(path) == cv_imread(path).empty

\* C20: load_patterns reports a load error for each path of its list whose
\* image cannot be read, and loads the image of every other path of the list,
\* those after an unreadable one too.
C20_LoadReportsEachFailure ==
    \A i \in 1..Len(load_log.paths) :
        LET path == load_log.paths[i] IN
        IF Unreadable(path)
        THEN InList(path, load_log.reports)
        ELSE \E k \in 1..Len(tracker_patterns) :
                 /\ tracker_patterns[k].id = path[Len(path)]
                 /\ ~SiftPattern_is_empty(tracker_patterns[k])
                 /\ tracker_patterns[k].computed

----------------------------------------------------------------------------
(* Properties of the match engine.                                         *)

WithinTolerance(ref_long, ref_short, cand_long, cand_short) ==
    RATIO_TOLERANCE.den * Abs(cand_long * ref_short - ref_long * cand_short)
        <= RATIO_TOLERANCE.num * cand_long * ref_short

\* C22: for one pattern and one frame, both with an image, a result is
\* emitted exactly when at least MIN_MATCH_COUNT matches are good, the
\* homography is a matrix, the short sides of the candidate and of the
\* reference rectangle are not zero and the aspect ratios differ by at most
\* RATIO_TOLERANCE; no division by zero happens.
C22_ResultIffGate ==
    (/\ matcher_call.op = "track"
     /\ ~SiftPattern_is_empty(matcher_call.pattern)
     /\ ~SiftPattern_is_empty(matcher_call.frame))
        => LET pattern == matcher_call.pattern
               frame   == matcher_call.frame
               o == frame.img.cv[pattern.img.file][frame.sift]
               cand_long  == Max(o.size[1], o.size[2])
               cand_short == Min(o.size[1], o.size[2])
               ref_long   == Max(pattern.img.w - 1, pattern.img.h - 1)
               ref_short  == Min(pattern.img.w - 1, pattern.img.h - 1)
           IN  /\ ~matcher_call.raised
               /\ Len(matcher_call.res) <= 1
               /\ matcher_call.res # <<>>
                     <=> /\ o.good >= MIN_MATCH_COUNT
                         /\ o.M
                         /\ cand_short # 0
                         /\ ref_short # 0
                         /\ WithinTolerance(ref_long, ref_short, cand_long, cand_short)

\* A result has been emitted for a pattern whose aspect ratio differs from
\* the candidate's by just RATIO_TOLERANCE.
C22_Witness ==
    /\ matcher_call.op = "track"
    /\ matcher_call.res # <<>>
    /\ matcher_call.pattern.img.w = 10

----------------------------------------------------------------------------
(* Properties of the sender.                                               *)

\* The messages the claim wants for one pattern and for one pointer.
WantedOfPattern(p) ==
    IF ~TuioBounds_is_empty(p.bnd) /\ ~TuioSymbol_is_empty(p.sym)
    THEN <<[path |-> "/tuio2/bnd",
            args |-> <<p.s_id, p.u_id, p.bnd.x_pos, p.bnd.y_pos, p.bnd.angle, p.bnd.width,
                       p.bnd.height>>],
           [path |-> "/tuio2/sym",
            args |-> <<p.s_id, p.u_id, p.sym.tu_id, p.sym.c_id, "uuid", p.sym.uuid>>]>>
    ELSE <<>>

WantedOfPointer(p) ==
    IF p.s_id # -1
    THEN <<[path |-> "/tuio2/ptr",
            args |-> <<p.s_id, p.u_id, p.tu_id, p.c_id, p.x_pos, p.y_pos, p.angle, p.shear,
                       p.radius, p.press>>]>>
         \o [i \in 1..Len(p.data) |->
                [path |-> "/tuio2/dat",
                 args |-> <<p.s_id, p.u_id, p.c_id, p.data[i].mime_type, p.data[i].data>>]]
    ELSE <<>>

RECURSIVE Wanted(_, _)
Wanted(op, elements) ==
    IF elements = <<>> THEN <<>>
    ELSE (IF op = "send_patterns" THEN WantedOfPattern(Head(elements))
          ELSE WantedOfPointer(Head(elements))) \o Wanted(op, Tail(elements))

\* C23: what one send_patterns or send_pointers call puts on the wire is,
\* element by element in the order given: bnd then sym for a valid pattern,
\* ptr then one dat for each ExtensionData for a pointer whose session id
\* is not -1, and nothing for the others.
C23_SenderEmitsSchema ==
    sender_call.op # "" => sender_call.wire = Wanted(sender_call.op, sender_call.elements)

\* An empty pointer and one with two ExtensionData have been sent in one
\* call.
C23_Witness ==
    /\ sender_call.op = "send_pointers"
    /\ Len(sender_call.elements) = 2
    /\ sender_call.elements[1].s_id = -1
    /\ sender_call.elements[2].s_id # -1
    /\ Len(sender_call.elements[2].data) = 2
    /\ Len(sender_call.wire) = 3

----------------------------------------------------------------------------
(* Properties of the elements.                                             *)

\* The places of the ExtensionData of mime type m in a list.
HeldOf(data_list, m) == {i \in 1..Len(data_list) : data_list[i].mime_type = m}

\* C24: after append_data and append_data_list calls with remove_similar
\* = True, the element holds at most one ExtensionData of each mime type,
\* and the one it holds is the one inserted last.
C24_OnePerMimeType ==
    \A m \in MimeTypes :
        /\ Cardinality(HeldOf(element.pat.data, m)) <= 1
        /\ element.latest[m] # NoData
              => \E i \in HeldOf(element.pat.data, m) : element.pat.data[i] = element.latest[m]

\* C27: set_height(h) leaves the bounds with height h and x, y, angle and
\* width as they were; set_width(w) changes the width alone.
C27_SetterChangesOneField ==
    /\ element.call.op = "set_height"
          => element.pat.bnd = [element.call.before EXCEPT !.height = element.call.arg]
    /\ element.call.op = "set_width"
          => element.pat.bnd = [element.call.before EXCEPT !.width = element.call.arg]

----------------------------------------------------------------------------
(* Properties of the shutdown.                                             *)

Enqueued == Len(bnd_queue) + Len(sym_queue) + Len(ptr_queue) + Len(dat_queue)

\* Once the server is terminated it stays so and no queue gets a message.
StoppedAddsNothing ==
    server = "terminated"
        => /\ server' = "terminated"
           /\ Len(bnd_queue') <= Len(bnd_queue) /\ Len(sym_queue') <= Len(sym_queue)
           /\ Len(ptr_queue') <= Len(ptr_queue) /\ Len(dat_queue') <= Len(dat_queue)

\* A poll after the stop takes every message off the queues: what the
\* server enqueued has then all been processed.
PollAfterStopCompletes ==
    (server = "terminated" /\ pc = "idle" /\ pc' = "return")
        => /\ Enqueued' = 0
           /\ processed' = processed + Enqueued
           /\ processed' = received - handler_errors

\* C25: after start() and terminate() no message is added to any of the
\* four queues, and a poll that follows completes: the messages enqueued
\* before the stop are all taken off the queues, applied or dropped.
C25_StoppableReceiveLoop == [][StoppedAddsNothing /\ PollAfterStopCompletes]_vars

\* A poll after the stop has applied a ptr message enqueued before it and
\* dropped a dat message for a pointer that is unknown.
C25_Witness ==
    /\ server = "terminated" /\ pc = "return"
    /\ Len(poll.queues.ptr) > 0 /\ Len(poll.queues.dat) > 0
    /\ DOMAIN pointers # {}
    /\ update_log.dat = <<>>

----------------------------------------------------------------------------
(* Properties of a tracking round: the frame's features.                   *)

\* The frame patterns whose key points and descriptors have been computed
\* in the round: the tracker's own (0) and those of the threads.
FramesComputed ==
    (IF tracking_round.frame_pattern.computed THEN {0} ELSE {})
        \cup {t \in 1..Len(tracking_round.threads) :
                  tracking_round.threads[t].frame_pattern.computed}

\* C26: in a round on a frame that has an image, the frame's key points
\* and descriptors are computed exactly once, by track and by
\* track_concurrent with any number of threads.
C26_FrameComputedOnce ==
    (tracking_round.pc = "returned" /\ ~tracking_round.image.empty)
        => Cardinality(FramesComputed) = 1

----------------------------------------------------------------------------
(* Properties of one poll: the change log and the order of the messages.   *)

NoKeyTwice(log) == \A i, j \in 1..Len(log) : log[i] = log[j] => i = j

\* C28: in the change log update_elements returns, no key occurs twice in
\* "bnd", in "sym", in "ptr" or in "dat".
C28_LogListsAreSets ==
    Returning =>
        /\ NoKeyTwice(update_log.bnd) /\ NoKeyTwice(update_log.sym)
        /\ NoKeyTwice(update_log.ptr) /\ NoKeyTwice(update_log.dat)

\* The places of the messages for key k in a bnd and in a ptr queue.
BndPlaces(queue, k) == {i \in 1..Len(queue) : PatKey(queue[i]) = k}

PtrPlaces(queue, k) == {i \in 1..Len(queue) : TuioPointer_key(queue[i].ptr) = k}

\* C29: after a poll, a pattern has the bounds of the last bnd message the
\* poll drained for its key, and a pointer the values of the last ptr
\* message drained for its key.
C29_LastMessageWins ==
    Returning =>
        /\ \A k \in PatKeysOf(poll.queues.bnd) :
             /\ k \in DOMAIN patterns
             /\ patterns[k].bnd =
                    poll.queues.bnd[Last(BndPlaces(poll.queues.bnd, k))].bnd
        /\ \A k \in PtrKeysOf(poll.queues.ptr) :
             /\ k \in DOMAIN pointers
             /\ [pointers[k] EXCEPT !.data = <<>>] =
                    [poll.queues.ptr[Last(PtrPlaces(poll.queues.ptr, k))].ptr
                        EXCEPT !.data = <<>>]

\* A poll has drained two bnd messages with different bounds for one key.
C29_Witness ==
    /\ Returning
    /\ \E k \in PatKeysOf(poll.queues.bnd) :
         \E i, j \in BndPlaces(poll.queues.bnd, k) :
             i < j /\ poll.queues.bnd[i].bnd # poll.queues.bnd[j].bnd

----------------------------------------------------------------------------
(* Properties of the ProcessWrapper.                                       *)

\* C30: is_running() is True exactly when the subprocess is running: not
\* before start(), and no more once the subprocess has ended, by stop() or
\* on its own.
C30_IsRunningIffAlive ==
    ProcessWrapper_is_running(proc) <=> proc._subprocess.state = "alive"

----------------------------------------------------------------------------
(* Invariants of the registry's maps.                                      *)

\* C31: in every state reachable by polls and message arrivals the pattern
\* map and the pattern update-time map have the same keys, and so have the
\* pointer map and the pointer update-time map; so it is after each of the
\* five calls of a poll.
KeysAgree(R) ==
    /\ DOMAIN R.patterns = DOMAIN R.pattern_update_times
    /\ DOMAIN R.pointers = DOMAIN R.pointer_update_times

C31_KeySetsAgree ==
    /\ KeysAgree(Registry)
    /\ Returning => \A step \in {"bnd", "sym", "ptr", "dat", "expire"} : KeysAgree(poll.after[step])

\* C31 witness: a poll returns whose sweep has removed a pattern and a
\* pointer and has kept another pattern.
C31_Witness ==
    /\ Returning
    /\ DOMAIN poll.after.dat.patterns \ DOMAIN patterns # {}
    /\ DOMAIN poll.after.dat.pointers \ DOMAIN pointers # {}
    /\ patterns # EmptyDict

LogKeys(log) == {log[i] : i \in 1..Len(log)}

\* C32: every key in a category of the log update_elements returns is in the
\* live map of its kind when the call returns (bnd and sym keys in the
\* pattern map, ptr and dat keys in the pointer map): the sweep of a poll
\* evicts nothing the poll has touched, and get_pattern / get_pointer on a
\* key of the log finds its entity.
C32_LoggedKeysAreLive ==
    Returning =>
        /\ LogKeys(update_log.bnd) \cup LogKeys(update_log.sym) \subseteq DOMAIN patterns
        /\ LogKeys(update_log.ptr) \cup LogKeys(update_log.dat) \subseteq DOMAIN pointers

\* C32 witness: a poll returns whose sweep has removed a pattern and has kept
\* a pointer whose last update before the poll was older than the timeout:
\* the poll has applied a dat message to it, and its key is in the log.
C32_Witness ==
    /\ Returning /\ element_timeout > 0
    /\ DOMAIN poll.after.dat.patterns \ DOMAIN patterns # {}
    /\ \E k \in LogKeys(update_log.dat) \ LogKeys(update_log.ptr) :
         /\ time_now - poll.start.pointer_update_times[k] > element_timeout
         /\ k \in DOMAIN pointers

\* C33: every entry of the pattern map and of the pointer map is stored
\* under the key computed from the stored entity itself, entity.key(), for
\* every session id received, -1 included.
C33_MapKeyIsEntityKey ==
    /\ \A k \in DOMAIN patterns : TuioImagePattern_key(patterns[k]) = k
    /\ \A k \in DOMAIN pointers : TuioPointer_key(pointers[k]) = k

\* The registry before the i-th message of a queue is processed, the loop
\* having started from R.
BeforeBnd(R, queue, i) == _process_bnd_updates(R, SubSeq(queue, 1, i - 1), time_now)

BeforeSym(R, queue, i) == _process_sym_updates(R, SubSeq(queue, 1, i - 1), time_now)

BeforePtr(R, queue, i) == _process_ptr_updates(R, SubSeq(queue, 1, i - 1), time_now)

BeforeDat(R, queue, i) == _process_dat_updates(R, SubSeq(queue, 1, i - 1), time_now)

\* Between Rb and Ra no element and no update time has changed, but those of
\* key in elements / times.
OthersKept(elements_b, times_b, elements_a, times_a, key) ==
    /\ DOMAIN elements_b \ {key} = DOMAIN elements_a \ {key}
    /\ DOMAIN times_b \ {key} = DOMAIN times_a \ {key}
    /\ \A k \in DOMAIN elements_b \ {key} : elements_a[k] = elements_b[k]
    /\ \A k \in DOMAIN times_b \ {key} : times_a[k] = times_b[k]

PatternFrame(Rb, Ra, key) ==
    /\ OthersKept(Rb.patterns, Rb.pattern_update_times, Ra.patterns, Ra.pattern_update_times, key)
    /\ Ra.pointers = Rb.pointers /\ Ra.pointer_update_times = Rb.pointer_update_times

PointerFrame(Rb, Ra, key) ==
    /\ OthersKept(Rb.pointers, Rb.pointer_update_times, Ra.pointers, Ra.pointer_update_times, key)
    /\ Ra.patterns = Rb.patterns /\ Ra.pattern_update_times = Rb.pattern_update_times

\* C34: processing a message for one key changes that key's entity and update
\* time only: every other pattern and pointer of the maps, and its update
\* time, is as it was before the message; so whether the sweep of a poll
\* evicts an entity depends on the messages for its own key only.
C34_MessageTouchesOneKey ==
    Returning =>
        /\ \A i \in 1..Len(poll.queues.bnd) :
             LET Rb == BeforeBnd(poll.start, poll.queues.bnd, i) IN
             PatternFrame(Rb, bnd_update(Rb, poll.queues.bnd[i], time_now),
                          PatKey(poll.queues.bnd[i]))
        /\ \A i \in 1..Len(poll.queues.sym) :
             LET Rb == BeforeSym(poll.after.bnd, poll.queues.sym, i) IN
             PatternFrame(Rb, sym_update(Rb, poll.queues.sym[i], time_now),
                          PatKey(poll.queues.sym[i]))
        /\ \A i \in 1..Len(poll.queues.ptr) :
             LET Rb == BeforePtr(poll.after.sym, poll.queues.ptr, i) IN
             PointerFrame(Rb, ptr_update(Rb, poll.queues.ptr[i], time_now),
                          TuioPointer_key(poll.queues.ptr[i].ptr))
        /\ \A i \in 1..Len(poll.queues.dat) :
             LET Rb == BeforeDat(poll.after.ptr, poll.queues.dat, i) IN
             PointerFrame(Rb, dat_update(Rb, poll.queues.dat[i], time_now),
                          DatKey(poll.queues.dat[i]))
        /\ \A k \in DOMAIN poll.start.patterns \ (PatKeysOf(poll.queues.bnd) \cup PatKeysOf(poll.queues.sym)) :
             k \in DOMAIN patterns <=>
                 ~(element_timeout > 0 /\ time_now - poll.start.pattern_update_times[k] > element_timeout)
        /\ \A k \in DOMAIN poll.start.pointers \ (PtrKeysOf(poll.queues.ptr) \cup DatKeysOf(poll.queues.dat)) :
             k \in DOMAIN pointers <=>
                 ~(element_timeout > 0 /\ time_now - poll.start.pointer_update_times[k] > element_timeout)

\* C34 witness: a poll returns that has processed a bnd message for one
\* pattern while the maps held another pattern with an older update time,
\* which it has kept, and a pointer.
C34_Witness ==
    /\ Returning
    /\ \E i \in 1..Len(poll.queues.bnd) :
         \E k \in DOMAIN poll.start.patterns \ {PatKey(poll.queues.bnd[i])} :
             /\ poll.start.pattern_update_times[k] < time_now
             /\ k \in DOMAIN patterns
    /\ poll.start.pointers # EmptyDict

----------------------------------------------------------------------------
(* Properties of a poll that runs while messages arrive.                   *)

Kinds == {"bnd", "sym", "ptr", "dat"}

QueueOf(kind) ==
    CASE kind = "bnd" -> bnd_queue
      [] kind = "sym" -> sym_queue
      [] kind = "ptr" -> ptr_queue
      [] kind = "dat" -> dat_queue

Msgs(entries) == [i \in 1..Len(entries) |-> entries[i].msg]

\* The loop of the kind, of the poll under way, has not ended.
LoopToCome(kind) == pc # "idle" /\ PcOrder[pc] <= PcOrder[kind]

\* C35: every message the receive path has put on a queue is applied by
\* exactly one update_elements call: per kind, the messages applied so far
\* followed by those on the queue are the messages enqueued, in their order;
\* each is applied by the poll under way at its arrival when the loop of its
\* kind had not ended, else by the next poll; and none stays on the queue
\* past that poll.
C35_AppliedExactlyOnce ==
    \A kind \in Kinds :
        /\ Msgs(trace.app[kind]) \o QueueOf(kind) = Msgs(trace.enq[kind])
        /\ \A j \in 1..Len(trace.app[kind]) :
             trace.app[kind][j].poll = trace.enq[kind][j].due
        /\ \A j \in (Len(trace.app[kind]) + 1)..Len(trace.enq[kind]) :
             \/ trace.enq[kind][j].due > trace.polls
             \/ trace.enq[kind][j].due = trace.polls /\ LoopToCome(kind)

\* C35 witness: the second poll has applied a bnd message that arrived
\* during the first poll, after that poll's bnd loop had ended and while its
\* dat loop was still to come, and the first poll has applied a bnd message
\* too.
C35_Witness ==
    /\ Len(trace.app.bnd) = 2
    /\ trace.app.bnd[1].poll = 1
    /\ trace.enq.bnd[2].at \in {"sym", "ptr", "dat"}
    /\ trace.app.bnd[2].poll = 2

\* C36: update_elements terminates.  The receive path delivering finitely
\* many messages and the polling thread being scheduled, each of the four
\* drain loops that has begun ends, and every call that has begun reaches
\* its return statement.
C36_PollTerminates ==
    /\ (pc = "bnd") ~> (pc = "sym")
    /\ (pc = "sym") ~> (pc = "ptr")
    /\ (pc = "ptr") ~> (pc = "dat")
    /\ (pc = "dat") ~> (pc = "expire")
    /\ (pc = "bnd") ~> (pc = "return")

\* C36 witness: the last message has been delivered while a poll is in its
\* dat loop, and two messages wait on the dat queue.
C36_Witness ==
    /\ ~trace.on
    /\ pc = "dat"
    /\ received = MaxArrivals
    /\ Len(dat_queue) = 2

----------------------------------------------------------------------------
(* Two receivers of one process.                                           *)

SentTo(r) == {TuioImagePattern_calc_key(r, 0), TuioPointer_calc_key(r, 0, 0)}

\* C37: two TuioReceiver instances created in one process with default
\* arguments have separate queues: update_elements of a receiver drains only
\* messages its own dispatcher has handled, and its maps hold only elements
\* sent to it.
C37_SeparateQueues ==
    \A r \in Receivers :
        /\ \A i \in 1..Len(pair.recv[r].drained) : pair.recv[r].drained[i].s_id = r
        /\ DOMAIN pair.recv[r].R.patterns \cup DOMAIN pair.recv[r].R.pointers \subseteq SentTo(r)

----------------------------------------------------------------------------
(* The pattern store and the results of a round.                           *)

\* C38: after any sequence of load_pattern, load_patterns and clear_patterns
\* calls every pattern of the store has image data: a pattern whose image
\* failed to load is not left in the store.
C38_StoreHoldsLoadedPatterns ==
    \A i \in 1..Len(tracker_patterns) : ~SiftPattern_is_empty(tracker_patterns[i])

\* C39: every result a round of track or track_concurrent returns is valid
\* (its pattern id is set and its bounds are not empty), its bounds have
\* width >= height > 0, its pattern id is one of the store, and no two
\* results of the round have the same pattern id.
C39_ResultsValidOnePerId ==
    tracking_round.pc = "returned" =>
        LET res == tracking_round.res IN
        /\ \A i \in 1..Len(res) :
             /\ PatternTrackingResult_is_valid(res[i])
             /\ res[i].bnd.width >= res[i].bnd.height
             /\ res[i].bnd.height > 0
             /\ res[i].pattern_id \in StoreIds(tracker_patterns)
        /\ \A i, j \in 1..Len(res) : res[i].pattern_id = res[j].pattern_id => i = j

\* C39 witness: track_concurrent with two threads has returned two results,
\* one of each thread, of a box wider than high.
C39_Witness ==
    /\ Returned("track_concurrent")
    /\ Len(tracking_round.threads) = 2
    /\ \A t \in 1..2 : Len(tracking_round.threads[t].results) = 1
    /\ Len(tracking_round.res) = 2
    /\ tracking_round.res[1].bnd.width > tracking_round.res[1].bnd.height

----------------------------------------------------------------------------
(* Sessions of webutils.                                                   *)

\* C40: for a SurfaceStreamsSession and a RemoteTrackingSession, connect()
\* on a connected session and disconnect() on a session that is not
\* connected return False without sending a request; after a successful
\* disconnect() the session is no longer connected, so that a second
\* disconnect() returns False and a new connect() sends its request.
C40_ConnectDisconnectGuards ==
    LET l == web.last IN
    /\ \A s \in Sessions : web[s]._is_connected = web.linked[s]
    /\ (l.call = "connect" /\ l.was_linked) => (l.ret = "False" /\ ~l.sent)
    /\ (l.call = "connect" /\ ~l.was_linked) => l.sent
    /\ (l.call = "disconnect" /\ ~l.was_linked) => (l.ret = "False" /\ ~l.sent)

====
